---- MODULE Spec2Model ----
(***************************************************************************)
(* Temporal scalar functions of the query engine                           *)
(* (src/query/functions/src/scalars/datetime.rs).                          *)
(*                                                                         *)
(* Scale.  TLC integers are 32 bits wide, the program's are 64: the model  *)
(* keeps the structure of the program's numbers and shrinks their size.    *)
(*   i64                       : I64_BITS bits, two's complement           *)
(*   1 millisecond             : MICROS_PER_MILLI microseconds             *)
(*   1 second                  : MICROS_PER_SEC = MICROS_PER_MILLI^2       *)
(*   1 minute / 1 hour / 1 day : FACTOR_MINUTE / FACTOR_HOUR / SECS_PER_DAY*)
(*                               seconds                                   *)
(*   seconds/millis thresholds : SEC_LIMIT, MILLI_LIMIT =                  *)
(*                               SEC_LIMIT * MICROS_PER_MILLI              *)
(* so that, as in the program, SEC_LIMIT seconds and MILLI_LIMIT           *)
(* milliseconds are the same instant, that instant is inside the Timestamp *)
(* range, and the Timestamp range is well inside i64.                      *)
(***************************************************************************)
EXTENDS Integers, Sequences, FiniteSets, TLC

VARIABLES
    build,    \* how the binary was compiled: overflow checks on or off
    req,      \* the call of a row function or of a domain rule: its arguments
    res,      \* what that call returned
    fn,       \* batch evaluation: the registered function being evaluated
    rows,     \* batch evaluation: the input column
    ctx,      \* batch evaluation: the session settings of the EvalContext
    idx,      \* batch evaluation: the row the vectorized loop is at
    output,   \* batch evaluation: the output builder
    errors,   \* batch evaluation: the error sink of the EvalContext
    result    \* batch evaluation: the column handed back to the caller

vars == <<build, req, res, fn, rows, ctx, idx, output, errors, result>>

-----------------------------------------------------------------------------
(* Machine integers *)

I64_BITS == 8
I64_MIN == -(2 ^ (I64_BITS - 1))
I64_MAX == (2 ^ (I64_BITS - 1)) - 1
I64 == I64_MIN .. I64_MAX

\* x does not fit an i64
Overflows(x) == x < I64_MIN \/ x > I64_MAX

\* the i64 a release build leaves in place of the exact value x
Wrap64(x) == ((x - I64_MIN) % (2 ^ I64_BITS)) + I64_MIN

\* debug builds panic when +, - or a product overflows, release builds wrap
Builds == {"debug", "release"}

-----------------------------------------------------------------------------
(* Units and ranges *)

MICROS_PER_MILLI == 2
MICROS_PER_SEC == 4
FACTOR_SECOND == 1
FACTOR_MINUTE == 2
FACTOR_HOUR == 4
SECS_PER_DAY == 8
MICROS_PER_DAY == SECS_PER_DAY * MICROS_PER_SEC
MICROS_PER_HOUR == FACTOR_HOUR * MICROS_PER_SEC

DATE_MIN == -2
DATE_MAX == 2
TIMESTAMP_MIN == DATE_MIN * MICROS_PER_DAY
TIMESTAMP_MAX == (DATE_MAX + 1) * MICROS_PER_DAY - 1

Dates == DATE_MIN .. DATE_MAX
Timestamps == TIMESTAMP_MIN .. TIMESTAMP_MAX

\* |n| below SEC_LIMIT is read as seconds, below MILLI_LIMIT as milliseconds.
\* As in the source, SEC_LIMIT seconds and MILLI_LIMIT milliseconds are the same
\* instant, which lies beyond -TIMESTAMP_MIN and before TIMESTAMP_MAX.
SEC_LIMIT == 18
MILLI_LIMIT == 36

clamp_timestamp(micros) ==
    IF micros < TIMESTAMP_MIN THEN TIMESTAMP_MIN
    ELSE IF micros > TIMESTAMP_MAX THEN TIMESTAMP_MAX
    ELSE micros

clamp_date(days) ==
    IF days < DATE_MIN THEN DATE_MIN
    ELSE IF days > DATE_MAX THEN DATE_MAX
    ELSE days

-----------------------------------------------------------------------------
(* Results of a call *)

Pending == [status |-> "pending", val |-> 0, wrapped |-> FALSE,
            kind |-> "-", min |-> 0, max |-> 0, err |-> "-", str |-> ""]

\* the call returned the string s
StringValue(s) == [Pending EXCEPT !.status = "ok", !.str = s]

\* the call returned the value v; wrapped: an intermediate result wrapped
Value(v, w) == [Pending EXCEPT !.status = "ok", !.val = v, !.wrapped = w]

\* the call panicked (overflow check of a debug build)
Panic == [Pending EXCEPT !.status = "panic"]

\* the row reported the error e and pushed the placeholder v
RowError(e, v) == [Pending EXCEPT !.status = "error", !.val = v, !.err = e]

\* FunctionDomain::Domain(SimpleDomain {min, max})
Bounded(lo, hi, w) ==
    [Pending EXCEPT !.status = "ok", !.kind = "Bounded", !.min = lo, !.max = hi,
                    !.wrapped = w]

\* FunctionDomain::MayThrow
MayThrow == [Pending EXCEPT !.status = "ok", !.kind = "MayThrow"]

-----------------------------------------------------------------------------
(* Time zones: what chrono-tz answers for the zones of the model.          *)
(* local_minus_utc is in seconds, as chrono's FixedOffset is.              *)

\* Europe/London and Antarctica/Troll are on summer time from DST_START until
\* DST_END (UTC micros): London moves its clock by one hour, Troll by two
DST_START == 16
DST_END == 48

Zones ==
    {"UTC", "Asia/Shanghai", "America/Phoenix", "Europe/London",
     "Antarctica/Troll"}

\* a name Tz::from_str rejects
BadZone == "Mars/Olympus"

\* target_tz.parse::<Tz>()
tz_parses(name) == name \in Zones

\* the offsets a zone ever uses
ZoneOffsets(tz) ==
    CASE tz = "UTC" -> {0}
      [] tz = "Asia/Shanghai" -> {FACTOR_HOUR}
      [] tz = "America/Phoenix" -> {-FACTOR_HOUR}
      [] tz = "Europe/London" -> {0, FACTOR_HOUR}
      [] tz = "Antarctica/Troll" -> {0, 2 * FACTOR_HOUR}

\* instant.with_timezone(&tz).offset().fix().local_minus_utc()
local_minus_utc(tz, utc) ==
    CASE tz = "UTC" -> 0
      [] tz = "Asia/Shanghai" -> FACTOR_HOUR
      [] tz = "America/Phoenix" -> -FACTOR_HOUR
      [] tz = "Europe/London" ->
            IF DST_START <= utc /\ utc < DST_END THEN FACTOR_HOUR ELSE 0
      [] tz = "Antarctica/Troll" ->
            IF DST_START <= utc /\ utc < DST_END THEN 2 * FACTOR_HOUR ELSE 0

-----------------------------------------------------------------------------
(* plus / minus between a Date or Timestamp and an Int64 *)

\* plus(Date, Int64): clamp_date((a as i64) + b)
plus_date(bld, a, b) ==
    LET sum == a + b IN
    IF Overflows(sum) /\ bld = "debug" THEN Panic
    ELSE Value(clamp_date(Wrap64(sum)), Overflows(sum))

\* plus(Timestamp, Int64): a + b, then clamp_timestamp
plus_timestamp(bld, a, b) ==
    LET sum == a + b IN
    IF Overflows(sum) /\ bld = "debug" THEN Panic
    ELSE Value(clamp_timestamp(Wrap64(sum)), Overflows(sum))

\* minus(Date, Int64): clamp_date((a as i64) - b)
minus_date(bld, a, b) ==
    LET diff == a - b IN
    IF Overflows(diff) /\ bld = "debug" THEN Panic
    ELSE Value(clamp_date(Wrap64(diff)), Overflows(diff))

\* minus(Timestamp, Int64): a - b, then clamp_timestamp
minus_timestamp(bld, a, b) ==
    LET diff == a - b IN
    IF Overflows(diff) /\ bld = "debug" THEN Panic
    ELSE Value(clamp_timestamp(Wrap64(diff)), Overflows(diff))

\* the domain rule of plus(Date, Int64): the casts of lhs.min and lhs.max to
\* i64 always succeed, so the closure always returns Some(Domain)
plus_date_domain(bld, ln, lm, rn, rm) ==
    LET min == ln + rn
        max == lm + rm
        ovf == Overflows(min) \/ Overflows(max)
    IN  IF ovf /\ bld = "debug" THEN Panic
        ELSE Bounded(clamp_date(Wrap64(min)), clamp_date(Wrap64(max)), ovf)

\* the domain rule of plus(Timestamp, Int64): a block that ends in Some(..)
plus_timestamp_domain(bld, ln, lm, rn, rm) ==
    LET min == ln + rn
        max == lm + rm
        ovf == Overflows(min) \/ Overflows(max)
    IN  IF ovf /\ bld = "debug" THEN Panic
        ELSE Bounded(clamp_timestamp(Wrap64(min)), clamp_timestamp(Wrap64(max)), ovf)

\* the domain rule of minus(Date, Int64): min from ln - rn, max from lm - rm
minus_date_domain(bld, ln, lm, rn, rm) ==
    LET min == ln - rn
        max == lm - rm
        ovf == Overflows(min) \/ Overflows(max)
    IN  IF ovf /\ bld = "debug" THEN Panic
        ELSE Bounded(clamp_date(Wrap64(min)), clamp_date(Wrap64(max)), ovf)

\* the domain rule of minus(Timestamp, Int64): min from ln - rn, max from lm - rm
minus_timestamp_domain(bld, ln, lm, rn, rm) ==
    LET min == ln - rn
        max == lm - rm
        ovf == Overflows(min) \/ Overflows(max)
    IN  IF ovf /\ bld = "debug" THEN Panic
        ELSE Bounded(clamp_timestamp(Wrap64(min)), clamp_timestamp(Wrap64(max)), ovf)

-----------------------------------------------------------------------------
(* add_seconds(Timestamp, Int64) *)

\* unsigned_ident!{delta}
unsigned_ident(delta) == delta

\* EvalTimesImpl::eval_timestamp: scaled addition, saturating at the range
EvalTimesImpl_eval_timestamp(us, delta, factor) ==
    clamp_timestamp(us + delta * factor * MICROS_PER_SEC)

\* the add_seconds row closure left without the helper's clamp
add_seconds_unclamped(ts, delta) ==
    ts + unsigned_ident(delta) * FACTOR_SECOND * MICROS_PER_SEC

add_seconds(ts, delta) ==
    EvalTimesImpl_eval_timestamp(ts, unsigned_ident(delta), FACTOR_SECOND)

-----------------------------------------------------------------------------
(* Integer casts *)

\* int64_to_timestamp reading every n as microseconds
int64_to_timestamp_as_micros(n) == clamp_timestamp(n)

int64_to_timestamp(n) ==
    IF -SEC_LIMIT < n /\ n < SEC_LIMIT THEN n * MICROS_PER_SEC
    ELSE IF -MILLI_LIMIT < n /\ n < MILLI_LIMIT THEN n * MICROS_PER_MILLI
    ELSE clamp_timestamp(n)

\* always Some(SimpleDomain {..})
int64_domain_to_timestamp_domain(lo, hi) ==
    [min |-> int64_to_timestamp(lo), max |-> int64_to_timestamp(hi)]

\* the domain rule of to_timestamp(Int64): .map(Domain).unwrap_or(MayThrow)
\* of an Option that is always Some
number_to_timestamp_domain(lo, hi) ==
    LET d == int64_domain_to_timestamp_domain(lo, hi) IN Bounded(d.min, d.max, FALSE)

eval_number_to_timestamp(val) == int64_to_timestamp(val)

\* SimpleDomain::overflow_cast_with_minmax: the bounds cast with saturation,
\* and whether either cast saturated
overflow_cast_with_minmax(lo, hi, min, max) ==
    [min |-> IF lo < min THEN min ELSE IF lo > max THEN max ELSE lo,
     max |-> IF hi < min THEN min ELSE IF hi > max THEN max ELSE hi,
     overflowing |-> lo < min \/ lo > max \/ hi < min \/ hi > max]

\* the domain rule of to_date(Int64)
number_to_date_domain(lo, hi) ==
    LET c == overflow_cast_with_minmax(lo, hi, DATE_MIN, DATE_MAX) IN
    IF c.overflowing THEN MayThrow ELSE Bounded(c.min, c.max, FALSE)

eval_number_to_date(val) == clamp_date(val)

-----------------------------------------------------------------------------
(* Date -> Timestamp *)

\* the day count in micros, less the zone's offset at the epoch
calc_date_to_timestamp(val, tz) ==
    LET ts == val * MICROS_PER_DAY
        epoch_time_with_ltz == local_minus_utc(tz, 0) * MICROS_PER_SEC
    IN  ts - epoch_time_with_ltz

-----------------------------------------------------------------------------
(* convert_timezone(target_tz, src_timestamp), one row *)

\* convert_timezone subtracting the target's offset from the source's
convert_timezone_reversed(target_tz, src_timestamp, tz) ==
    IF ~tz_parses(target_tz)
    THEN RowError("cannot parse target timezone", 0)
    ELSE Value(src_timestamp
                + (local_minus_utc(tz, src_timestamp)
                   - local_minus_utc(target_tz, src_timestamp)) * MICROS_PER_SEC,
               FALSE)

\* convert_timezone adding the target's offset alone
convert_timezone_ignoring_source(target_tz, src_timestamp, tz) ==
    IF ~tz_parses(target_tz)
    THEN RowError("cannot parse target timezone", 0)
    ELSE Value(src_timestamp
                + local_minus_utc(target_tz, src_timestamp) * MICROS_PER_SEC,
               FALSE)

convert_timezone(target_tz, src_timestamp, tz) ==
    LET src_dst_from_utc == local_minus_utc(tz, src_timestamp) IN
    IF ~tz_parses(target_tz)
    THEN RowError("cannot parse target timezone", 0)
    ELSE LET result_timestamp == src_timestamp
             target_dst_from_utc == local_minus_utc(target_tz, src_timestamp)
             offset_as_micros_sec == target_dst_from_utc - src_dst_from_utc
             offset == offset_as_micros_sec * MICROS_PER_SEC
         IN  IF Overflows(offset)
             THEN RowError("calc time offset error", 0)
             ELSE IF Overflows(result_timestamp + offset)
                  THEN RowError("calc final time error", 0)
                  ELSE Value(result_timestamp + offset, FALSE)

\* validity.get_bit(row) of Some(validity), rows counted from 0
get_bit(validity, row) == validity.bits[row + 1]

-----------------------------------------------------------------------------
(* Calendar and local time: what chrono answers.                           *)
(* The civil calendar of the model has MONTHS_PER_YEAR months of           *)
(* DAYS_PER_MONTH days; a NaiveDateTime is its wall clock reading in       *)
(* micros since 1970-01-01 00:00:00 and ranges over the days               *)
(* NAIVE_MIN_DAY .. NAIVE_MAX_DAY.                                         *)

EPOCH_YEAR == 1970
MONTHS_PER_YEAR == 2
DAYS_PER_MONTH == 2
NAIVE_MIN_DAY == -4
NAIVE_MAX_DAY == 3
NAIVE_MIN == NAIVE_MIN_DAY * MICROS_PER_DAY
NAIVE_MAX == (NAIVE_MAX_DAY + 1) * MICROS_PER_DAY - 1

\* NaiveDate::from_ymd(y, m, d).num_days_from_ce() - EPOCH_DAYS_FROM_CE
days_from_civil(y, m, d) ==
    ((y - EPOCH_YEAR) * MONTHS_PER_YEAR + (m - 1)) * DAYS_PER_MONTH + (d - 1)

\* the wall clock reading y-m-d h:mi:s in micros
naive_datetime(y, m, d, h, mi, s) ==
    days_from_civil(y, m, d) * MICROS_PER_DAY
        + (h * FACTOR_HOUR + mi * FACTOR_MINUTE + s * FACTOR_SECOND) * MICROS_PER_SEC

\* naive_dt.date().num_days_from_ce() - EPOCH_DAYS_FROM_CE
naive_date(naive) == naive \div MICROS_PER_DAY

None == [some |-> FALSE, v |-> 0]
Some(x) == [some |-> TRUE, v |-> x]

\* naive_dt.checked_add_signed(duration)
checked_add_signed(naive, micros) ==
    IF naive + micros < NAIVE_MIN \/ naive + micros > NAIVE_MAX THEN None
    ELSE Some(naive + micros)

\* MappedLocalTime
Mapped(k, a, b) == [kind |-> k, t1 |-> a, t2 |-> b]

\* tz.from_local_datetime(&naive): the instants at which tz's wall clock
\* reads naive, the earlier one first
from_local_datetime(tz, naive) ==
    LET cands == {u \in {naive - o * MICROS_PER_SEC : o \in ZoneOffsets(tz)} :
                    /\ NAIVE_MIN <= u /\ u <= NAIVE_MAX
                    /\ u + local_minus_utc(tz, u) * MICROS_PER_SEC = naive}
        lo == CHOOSE u \in cands : \A w \in cands : u <= w
        hi == CHOOSE u \in cands : \A w \in cands : w <= u
    IN  IF cands = {} THEN Mapped("None", 0, 0)
        ELSE IF Cardinality(cands) = 1 THEN Mapped("Single", lo, lo)
        ELSE Mapped("Ambiguous", lo, hi)

\* naive_dt.and_local_timezone(offset) for a FixedOffset of off seconds:
\* one instant, or none when it is outside chrono's range
and_local_timezone(naive, off) ==
    LET u == naive - off * MICROS_PER_SEC IN
    IF u < NAIVE_MIN \/ u > NAIVE_MAX THEN Mapped("None", 0, 0)
    ELSE Mapped("Single", u, u)

Ok(ts) == [ok |-> TRUE, ts |-> ts, need_null |-> FALSE, err |-> "-"]
OkNull == [ok |-> TRUE, ts |-> 0, need_null |-> TRUE, err |-> "-"]
Err(e) == [ok |-> FALSE, ts |-> 0, need_null |-> FALSE, err |-> e]

\* unwrap_local_time: the resolution of a naive reading in a zone.
\* Single: that instant.  None: with the fix, the reading one hour later is
\* resolved again (Single, or the earlier of Ambiguous), else an error.
\* Ambiguous: the earlier instant with the fix, the later without.
unwrap_local_time(tz, enable_dst_hour_fix, naive) ==
    LET m == from_local_datetime(tz, naive) IN
    CASE m.kind = "Single" -> Ok(m.t1)
      [] m.kind = "Ambiguous" -> Ok(IF enable_dst_hour_fix THEN m.t1 ELSE m.t2)
      [] m.kind = "None" ->
            IF enable_dst_hour_fix
            THEN LET res2 == checked_add_signed(naive, MICROS_PER_HOUR) IN
                 IF ~res2.some THEN Err("local time out of range")
                 ELSE LET m2 == from_local_datetime(tz, res2.v) IN
                      IF m2.kind = "None"
                      THEN Err("local time can not map to a single unique result")
                      ELSE Ok(m2.t1)
            ELSE Err("local time can not map to a single unique result")

-----------------------------------------------------------------------------
(* Input texts: a string is the reading the parsers take of it.            *)
(* shape: what the text spells (a date, a date and a time, with a UTC      *)
(* offset, a time alone, the same in words, or nothing readable).          *)

Txt(shape, y, m, d, h, mi, s, off) ==
    [shape |-> shape, y |-> y, m |-> m, d |-> d, h |-> h, mi |-> mi, s |-> s,
     off |-> off]

TextNaive(t) == naive_datetime(t.y, t.m, t.d, t.h, t.mi, t.s)

\* "1970-01-01 00:00:01"
TextPlain == Txt("datetime", 1970, 1, 1, 0, 0, 1, 0)
\* "1970-01-01 01:00:00", inside the hour Europe/London skips and the first
\* of the two hours Antarctica/Troll skips
TextGap == Txt("datetime", 1970, 1, 1, 1, 0, 0, 0)
\* "1970-01-02 01:00:00", inside the hours Europe/London and
\* Antarctica/Troll repeat
TextOverlap == Txt("datetime", 1970, 1, 2, 1, 0, 0, 0)
\* "1970-01-01 00:00:00 +01:00"
TextOffset == Txt("datetime_tz", 1970, 1, 1, 0, 0, 0, FACTOR_HOUR)
\* the last second chrono represents, in a zone west of Greenwich
TextEdge == Txt("datetime_tz", 1970, 2, 2, 1, 1, 1, -FACTOR_HOUR)
\* a reading whose instant, two hours west of Greenwich, is past the last one
\* chrono represents, while the reading one hour later is still representable
TextLate == Txt("datetime_tz", 1970, 2, 2, 0, 1, 1, -2 * FACTOR_HOUR)
\* "Jan 1 1970 00:01:00"
TextWords == Txt("words", 1970, 1, 1, 0, 1, 0, 0)
\* "1970-01-02"
TextDate == Txt("date", 1970, 1, 2, 0, 0, 0, 0)
\* "01:00:01"
TextTime == Txt("time", 1970, 1, 1, 1, 0, 1, 0)
\* "1970-01-01 00:00:01 %z"
TextPercentZ == Txt("datetime_percent_z", 1970, 1, 1, 0, 0, 1, 0)
\* "abc"
TextGarbage == Txt("garbage", 1970, 1, 1, 0, 0, 0, 0)

\* dtparse::parse(val): Ok((naive_dt, Option<FixedOffset>)) or Err
parse(val) ==
    CASE val.shape \in {"datetime", "date", "words"} ->
            [ok |-> TRUE, naive_dt |-> TextNaive(val), parse_tz |-> None]
      [] val.shape = "datetime_tz" ->
            [ok |-> TRUE, naive_dt |-> TextNaive(val), parse_tz |-> Some(val.off)]
      [] OTHER -> [ok |-> FALSE, naive_dt |-> 0, parse_tz |-> None]

\* string_to_timestamp (strict grammar): a text outside the grammar is an
\* error; a text with an offset is that instant; a naive one is resolved in tz
string_to_timestamp(val, tz, enable_dst_hour_fix) ==
    CASE val.shape \in {"datetime", "date"} ->
            unwrap_local_time(tz, enable_dst_hour_fix, TextNaive(val))
      [] val.shape = "datetime_tz" ->
            LET m == and_local_timezone(TextNaive(val), val.off) IN
            IF m.kind = "Single" THEN Ok(m.t1) ELSE Err("timestamp out of range")
      [] OTHER -> Err("bad timestamp text")

\* string_to_date (strict grammar): the calendar date the text spells
string_to_date(val, tz, enable_dst_hour_fix) ==
    IF val.shape \in {"datetime", "date", "datetime_tz"}
    THEN Ok(days_from_civil(val.y, val.m, val.d))
    ELSE Err("bad date text")

-----------------------------------------------------------------------------
(* Row closures.  A closure's effect on the builder and the error sink:    *)
(* push holds the slots it appends, err the messages it reports under the  *)
(* index output.len() read before its push.                                *)

Slot(v) == [null |-> FALSE, v |-> v]
NullSlot == [null |-> TRUE, v |-> 0]

Msg(prefix, detail) == [prefix |-> prefix, detail |-> detail]

Effect(push, err) == [push |-> push, err |-> err]

\* output.push(v)
Push(v) == Effect(<<Slot(v)>>, <<>>)
\* ctx.set_error(output.len(), msg); output.push(0)
Fail(msg) == Effect(<<Slot(0)>>, <<msg>>)
\* output.push_null()
PushNull == Effect(<<NullSlot>>, <<>>)
\* ctx.set_error(output.len(), msg); output.push_null()
FailNull(msg) == Effect(<<NullSlot>>, <<msg>>)
\* the closure returns having pushed nothing and reported nothing
NoEffect == Effect(<<>>, <<>>)

TimestampPrefix == "cannot parse to type TIMESTAMP. "
DatePrefix == "cannot parse to type DATE. "

\* eval_string_to_timestamp resolving every text as if the fix were set
eval_string_to_timestamp_always_fix(val, c) ==
    LET r == unwrap_local_time(c.tz, TRUE, TextNaive(val)) IN
    IF r.ok THEN Push(r.ts) ELSE Fail(Msg(TimestampPrefix, r.err))

\* the row closure of eval_string_to_timestamp
eval_string_to_timestamp(val, c) ==
    LET tz == c.tz
        enable_dst_hour_fix == c.enable_dst_hour_fix
    IN
    IF c.enable_strict_datetime_parser
    THEN LET r == string_to_timestamp(val, tz, enable_dst_hour_fix) IN
         IF r.ok THEN Push(r.ts) ELSE Fail(Msg(TimestampPrefix, r.err))
    ELSE
    LET p == parse(val) IN
    IF ~p.ok THEN Fail(Msg(TimestampPrefix, "dtparse error"))
    ELSE IF p.parse_tz.some
    THEN LET m == and_local_timezone(p.naive_dt, p.parse_tz.v) IN
         CASE m.kind = "Single" -> Push(m.t1)
           [] m.kind = "None" ->
                IF enable_dst_hour_fix
                THEN LET res2 == checked_add_signed(p.naive_dt, MICROS_PER_HOUR) IN
                     IF res2.some
                     THEN LET m2 == from_local_datetime(tz, res2.v) IN
                          CASE m2.kind = "Single" -> Push(m2.t1)
                            [] m2.kind = "Ambiguous" -> Push(m2.t1)
                            [] m2.kind = "None" ->
                                Fail(Msg(TimestampPrefix, "Local Time Error"))
                     ELSE NoEffect
                ELSE Fail(Msg(TimestampPrefix,
                              "time can not map to a single unique result"))
           [] m.kind = "Ambiguous" ->
                Push(IF enable_dst_hour_fix THEN m.t1 ELSE m.t2)
    ELSE LET r == unwrap_local_time(tz, enable_dst_hour_fix, p.naive_dt) IN
         IF r.ok THEN Push(r.ts) ELSE Fail(Msg(TimestampPrefix, r.err))

\* eval_string_to_date counting the days from the day before the epoch
eval_string_to_date_from_day_one(val, c) ==
    IF val.shape \in {"datetime", "date", "datetime_tz", "words"}
    THEN Push(days_from_civil(val.y, val.m, val.d) + 1)
    ELSE Fail(Msg(DatePrefix, "dtparse error"))

\* the row closure of eval_string_to_date
eval_string_to_date(val, c) ==
    IF c.enable_strict_datetime_parser
    THEN LET r == string_to_date(val, c.tz, c.enable_dst_hour_fix) IN
         IF r.ok THEN Push(r.ts) ELSE Fail(Msg(DatePrefix, r.err))
    ELSE LET p == parse(val) IN
         IF p.ok THEN Push(naive_date(p.naive_dt))
         ELSE Fail(Msg(DatePrefix, "dtparse error"))

-----------------------------------------------------------------------------
(* Explicit formats: what chrono's strftime parser answers.                *)
(* A pattern is written with chrono's %F for %Y-%m-%d and %T for %H:%M:%S. *)
(* A pattern and a text are read as sequences of items: D a calendar date, *)
(* T a time of day, Z a UTC offset, any other item a literal character.    *)

FormatEmpty == ""
FormatDate == "%F"
FormatDateTime == "%F %T"
FormatDateTimeTz == "%F %T %z"
FormatTime == "%T"
\* a date, a time, and an escaped percent followed by the letter z
FormatEscaped == "%F %T %%z"

\* the characters of a pattern
FormatChars(format) ==
    CASE format = FormatDate -> <<"%", "F">>
      [] format = FormatDateTime -> <<"%", "F", " ", "%", "T">>
      [] format = FormatDateTimeTz -> <<"%", "F", " ", "%", "T", " ", "%", "z">>
      [] format = FormatTime -> <<"%", "T">>
      [] format = FormatEscaped ->
            <<"%", "F", " ", "%", "T", " ", "%", "%", "z">>
      [] OTHER -> <<>>

\* StrftimeItems::new(format): the items of the pattern, read left to right;
\* %% is the literal percent, white space separates items
RECURSIVE StrftimeItems(_)
StrftimeItems(chars) ==
    IF chars = <<>> THEN <<>>
    ELSE IF Head(chars) = " " THEN StrftimeItems(Tail(chars))
    ELSE IF Head(chars) = "%" /\ Len(chars) >= 2
    THEN LET spec == chars[2]
             rest == StrftimeItems(SubSeq(chars, 3, Len(chars)))
         IN  CASE spec = "%" -> <<"%">> \o rest
               [] spec = "F" -> <<"D">> \o rest
               [] spec = "T" -> <<"T">> \o rest
               [] spec \in {"z", "Z"} -> <<"Z">> \o rest
               [] OTHER -> <<"error">>
    ELSE <<Head(chars)>> \o StrftimeItems(Tail(chars))

FormatItems(format) == StrftimeItems(FormatChars(format))

TextItems(text) ==
    CASE text.shape = "date" -> <<"D">>
      [] text.shape = "datetime" -> <<"D", "T">>
      [] text.shape = "datetime_tz" -> <<"D", "T", "Z">>
      [] text.shape = "datetime_percent_z" -> <<"D", "T", "%", "z">>
      [] text.shape = "time" -> <<"T">>
      [] OTHER -> <<>>

\* the patterns string_to_format_timestamp looks for
timezone_strftime ==
    {<<"%", "Z">>, <<"%", "z">>, <<"%", ":", "z">>, <<"%", ":", ":", "z">>,
     <<"%", ":", ":", ":", "z">>, <<"%", "#", "z">>}

\* str::contains: pattern is a run of consecutive characters of chars
contains(chars, pattern) ==
    \E i \in 1 .. (Len(chars) - Len(pattern) + 1) :
        SubSeq(chars, i, i + Len(pattern) - 1) = pattern

\* the pattern has an item that reads a timezone or a UTC offset
PatternHasTimezoneItem(format) ==
    \E i \in DOMAIN FormatItems(format) : FormatItems(format)[i] = "Z"

\* timezone_strftime.iter().any(|&pattern| format.contains(pattern))
has_timezone_directive(format) ==
    \E pattern \in timezone_strftime : contains(FormatChars(format), pattern)

\* how far the pattern reads the text: all of it, a prefix of it, or not at all
Match(text, format) ==
    LET f == FormatItems(format)
        t == TextItems(text)
    IN  IF t = <<>> \/ Len(f) > Len(t) \/ SubSeq(t, 1, Len(f)) # f THEN "fail"
        ELSE IF Len(f) = Len(t) THEN "full"
        ELSE "remainder"

\* hours in half a day: %H sets hour_div_12 and hour_mod_12
HALF_DAY_HOURS == 1

\* Parsed::new()
ParsedNew ==
    [timestamp |-> None, year |-> None, month |-> None, day |-> None,
     hour_div_12 |-> None, hour_mod_12 |-> None, minute |-> None,
     second |-> None, offset |-> None]

HasItem(format, item) ==
    \E i \in DOMAIN FormatItems(format) : FormatItems(format)[i] = item

\* the fields the items of the pattern set, with the values the text spells
parse_items(text, format) ==
    LET D == HasItem(format, "D")
        T == HasItem(format, "T")
        Z == HasItem(format, "Z")
    IN  [timestamp |-> None,
         year |-> IF D THEN Some(text.y) ELSE None,
         month |-> IF D THEN Some(text.m) ELSE None,
         day |-> IF D THEN Some(text.d) ELSE None,
         hour_div_12 |-> IF T THEN Some(text.h \div HALF_DAY_HOURS) ELSE None,
         hour_mod_12 |-> IF T THEN Some(text.h % HALF_DAY_HOURS) ELSE None,
         minute |-> IF T THEN Some(text.mi) ELSE None,
         second |-> IF T THEN Some(text.s) ELSE None,
         offset |-> IF Z THEN Some(text.off) ELSE None]

\* Parsed::to_naive_date
to_naive_date(parsed) ==
    IF parsed.year.some /\ parsed.month.some /\ parsed.day.some
    THEN Ok(days_from_civil(parsed.year.v, parsed.month.v, parsed.day.v))
    ELSE Err("input is not enough for unique date and time")

\* Parsed::to_naive_datetime_with_offset(0): the date and the time of day,
\* the second defaulting to 0
to_naive_datetime_with_offset(parsed) ==
    IF /\ parsed.year.some /\ parsed.month.some /\ parsed.day.some
       /\ parsed.hour_div_12.some /\ parsed.hour_mod_12.some /\ parsed.minute.some
    THEN Ok(naive_datetime(parsed.year.v, parsed.month.v, parsed.day.v,
                           parsed.hour_div_12.v * HALF_DAY_HOURS + parsed.hour_mod_12.v,
                           parsed.minute.v,
                           IF parsed.second.some THEN parsed.second.v ELSE 0))
    ELSE Err("input is not enough for unique date and time")

\* Parsed::to_datetime: the instant of the naive reading at the parsed offset
to_datetime(parsed) ==
    IF ~parsed.offset.some THEN Err("input is not enough for unique date and time")
    ELSE LET n == to_naive_datetime_with_offset(parsed) IN
         IF ~n.ok THEN n
         ELSE LET m == and_local_timezone(n.ts, parsed.offset.v) IN
              IF m.kind = "Single" THEN Ok(m.t1) ELSE Err("input is out of range")

\* DateTime::parse_from_str(timestamp, format)
DateTime_parse_from_str(timestamp, format) ==
    IF Match(timestamp, format) # "full" THEN Err("input contains invalid characters")
    ELSE to_datetime(parse_items(timestamp, format))

\* NaiveDateTime::parse_from_str(timestamp, format)
NaiveDateTime_parse_from_str(timestamp, format) ==
    IF Match(timestamp, format) # "full" THEN Err("input contains invalid characters")
    ELSE to_naive_datetime_with_offset(parse_items(timestamp, format))

\* NaiveDate::parse_from_str(date, format)
NaiveDate_parse_from_str(date, format) ==
    IF Match(date, format) # "full" THEN Err("input contains invalid characters")
    ELSE to_naive_date(parse_items(date, format))

\* the defaults string_to_format_timestamp pads a Parsed with when the
\* pattern gave no epoch timestamp
pad_defaults(parsed) ==
    IF parsed.timestamp.some THEN parsed
    ELSE [parsed EXCEPT
            !.year = IF parsed.year.some THEN @ ELSE Some(EPOCH_YEAR),
            !.month = IF parsed.month.some THEN @ ELSE Some(1),
            !.day = IF parsed.day.some THEN @ ELSE Some(1),
            !.hour_div_12 = IF parsed.hour_div_12.some \/ parsed.hour_mod_12.some
                            THEN @ ELSE Some(0),
            !.hour_mod_12 = IF parsed.hour_div_12.some \/ parsed.hour_mod_12.some
                            THEN @ ELSE Some(0),
            !.minute = IF parsed.minute.some THEN @ ELSE Some(0),
            !.second = IF parsed.second.some THEN @ ELSE Some(0)]

\* the naive reading resolved in the session zone
resolve_local(n, tz, enable_dst_hour_fix) ==
    IF ~n.ok THEN n ELSE unwrap_local_time(tz, enable_dst_hour_fix, n.ts)

string_to_format_timestamp(timestamp, format, c) ==
    IF format = FormatEmpty THEN OkNull
    ELSE
    LET parse_tz == has_timezone_directive(format)
        enable_dst_hour_fix == c.enable_dst_hour_fix
        tz == c.tz
    IN
    IF c.parse_datetime_ignore_remainder
    THEN IF Match(timestamp, format) = "fail"
         THEN Err("input contains invalid characters")
         ELSE LET parsed == pad_defaults(parse_items(timestamp, format)) IN
              IF parse_tz
              THEN to_datetime([parsed EXCEPT
                        !.offset = IF parsed.offset.some THEN @ ELSE Some(0)])
              ELSE resolve_local(to_naive_datetime_with_offset(parsed), tz,
                                 enable_dst_hour_fix)
    ELSE IF parse_tz
    THEN DateTime_parse_from_str(timestamp, format)
    ELSE resolve_local(NaiveDateTime_parse_from_str(timestamp, format), tz,
                       enable_dst_hour_fix)

\* the row closure of to_timestamp(String, String)
to_timestamp_format(timestamp, format, c) ==
    LET r == string_to_format_timestamp(timestamp, format, c) IN
    IF r.ok THEN (IF r.need_null THEN PushNull ELSE Push(r.ts))
    ELSE FailNull(Msg("", r.err))

\* the row closure of try_to_timestamp(String, String)
try_to_timestamp_format(timestamp, format, c) ==
    LET r == string_to_format_timestamp(timestamp, format, c) IN
    IF r.ok THEN (IF r.need_null THEN PushNull ELSE Push(r.ts))
    ELSE PushNull

\* to_date(String, String) handing the empty format to the parser
to_date_format_parsing_empty(date, format, c) ==
    LET r == NaiveDate_parse_from_str(date, format) IN
    IF r.ok THEN Push(r.ts) ELSE FailNull(Msg("", r.err))

\* the row closure of to_date(String, String)
to_date_format(date, format, c) ==
    IF format = FormatEmpty THEN PushNull
    ELSE LET r == NaiveDate_parse_from_str(date, format) IN
         IF r.ok THEN Push(r.ts) ELSE FailNull(Msg("", r.err))

\* date.to_timestamp(tz).format(format).to_string(): the wall clock reading
\* of the instant in tz, spelled with the items of the pattern
format_timestamp(date, tz, format) ==
    LET local == date + local_minus_utc(tz, date) * MICROS_PER_SEC
        days == local \div MICROS_PER_DAY
        secs == (local % MICROS_PER_DAY) \div MICROS_PER_SEC
        months == days \div DAYS_PER_MONTH
        items == FormatItems(format)
    IN  Txt(CASE items = <<"D">> -> "date"
              [] items = <<"D", "T">> -> "datetime"
              [] items = <<"T">> -> "time"
              [] OTHER -> "other",
            EPOCH_YEAR + months \div MONTHS_PER_YEAR,
            (months % MONTHS_PER_YEAR) + 1, (days % DAYS_PER_MONTH) + 1,
            secs \div FACTOR_HOUR, (secs % FACTOR_HOUR) \div FACTOR_MINUTE,
            (secs % FACTOR_MINUTE) \div FACTOR_SECOND, 0)

\* the row closure of to_string(Timestamp, String)
to_string_format(date, format, c) ==
    IF format = FormatEmpty THEN PushNull
    ELSE Push(format_timestamp(date, c.tz, format))

\* the row closure of try_to_date(String, String)
try_to_date_format(date, format, c) ==
    IF format = FormatEmpty THEN PushNull
    ELSE LET r == NaiveDate_parse_from_str(date, format) IN
         IF r.ok THEN Push(r.ts) ELSE PushNull

-----------------------------------------------------------------------------
(* Calls of the row functions and of the domain rules, one call a behaviour *)

Types == {"Date", "Timestamp"}

RangeOf(ty) == IF ty = "Date" THEN Dates ELSE Timestamps

\* the bounds a column's domain is drawn from
DomainPoints(ty) ==
    IF ty = "Date" THEN {DATE_MIN, 0, DATE_MAX}
    ELSE {TIMESTAMP_MIN, -1, 0, 1, TIMESTAMP_MAX}

Int64Points == {I64_MIN, I64_MIN + 1, -1, 0, 1, I64_MAX - 1, I64_MAX}

Req(op, ty, a, b, c, d, tz, target) ==
    [op |-> op, ty |-> ty, a |-> a, b |-> b, c |-> c, d |-> d,
     tz |-> tz, target |-> target]

\* op(a, b) on a value a of type ty and a delta b
ArithRequest(r) ==
    \E op \in {"plus", "minus"}, ty \in Types :
        \E a \in RangeOf(ty), b \in I64 :
            r = Req(op, ty, a, b, 0, 0, "UTC", "UTC")

\* the domain rule of op on lhs = [a, b] and rhs = [c, d], min <= max in both
ArithDomainRequest(r) ==
    \E op \in {"plus_domain", "minus_domain"}, ty \in Types :
        \E a \in DomainPoints(ty), b \in DomainPoints(ty),
           c \in Int64Points, d \in Int64Points :
            /\ a <= b
            /\ c <= d
            /\ r = Req(op, ty, a, b, c, d, "UTC", "UTC")

CastRequest(r) ==
    \/ \E a \in Timestamps, b \in I64 :
            r = Req("add_seconds", "Timestamp", a, b, 0, 0, "UTC", "UTC")
    \/ \E op \in {"number_to_timestamp", "number_to_date"}, a \in I64 :
            r = Req(op, "Int64", a, 0, 0, 0, "UTC", "UTC")
    \/ \E op \in {"number_to_timestamp_domain", "number_to_date_domain"},
          a \in I64, b \in I64 :
            /\ a <= b
            /\ r = Req(op, "Int64", a, b, 0, 0, "UTC", "UTC")
    \/ \E a \in Dates, tz \in Zones :
            r = Req("date_to_timestamp", "Date", a, 0, 0, 0, tz, "UTC")
    \/ \E a \in Timestamps, tz \in Zones, target \in Zones \cup {BadZone} :
            r = Req("convert_timezone", "Timestamp", a, 0, 0, 0, tz, target)
    \/ \E a \in Dates, b \in Dates :
            r = Req("diff_days", "Date", a, b, 0, 0, "UTC", "UTC")
    \/ \E a \in Dates, strict \in {0, 1}, tz \in Zones :
            r = Req("to_string", "Date", a, strict, 0, 0, tz, "UTC")

\* a registered function: its name and the number of its arguments
Fn(name, args) == [name |-> name, args |-> args]

NoFn == Fn("-", 0)

\* ctx.validity: None, or Some(bitmap) with one bit a row, TRUE = not null
NoValidity == [present |-> FALSE, bits |-> <<>>]
Validity(bits) == [present |-> TRUE, bits |-> bits]

NoCtx == [tz |-> "UTC", enable_dst_hour_fix |-> FALSE,
          enable_strict_datetime_parser |-> FALSE,
          parse_datetime_ignore_remainder |-> FALSE,
          validity |-> NoValidity]

NoResult == [done |-> FALSE, column |-> <<>>, errors |-> {}]

BatchIdle ==
    /\ fn = NoFn
    /\ rows = <<>>
    /\ ctx = NoCtx
    /\ idx = 0
    /\ output = <<>>
    /\ errors = {}
    /\ result = NoResult

Init ==
    /\ build \in Builds
    /\ \/ ArithRequest(req)
       \/ ArithDomainRequest(req)
       \/ CastRequest(req)
    /\ res = Pending
    /\ BatchIdle

\* what a call leaves alone
frame == <<build, req, fn, rows, ctx, idx, output, errors, result>>

Plus ==
    /\ req.op = "plus"
    /\ res = Pending
    /\ res' = IF req.ty = "Date" THEN plus_date(build, req.a, req.b)
              ELSE plus_timestamp(build, req.a, req.b)
    /\ UNCHANGED frame

Minus ==
    /\ req.op = "minus"
    /\ res = Pending
    /\ res' = IF req.ty = "Date" THEN minus_date(build, req.a, req.b)
              ELSE minus_timestamp(build, req.a, req.b)
    /\ UNCHANGED frame

PlusDomain ==
    /\ req.op = "plus_domain"
    /\ res = Pending
    /\ res' = IF req.ty = "Date"
              THEN plus_date_domain(build, req.a, req.b, req.c, req.d)
              ELSE plus_timestamp_domain(build, req.a, req.b, req.c, req.d)
    /\ UNCHANGED frame

MinusDomain ==
    /\ req.op = "minus_domain"
    /\ res = Pending
    /\ res' = IF req.ty = "Date"
              THEN minus_date_domain(build, req.a, req.b, req.c, req.d)
              ELSE minus_timestamp_domain(build, req.a, req.b, req.c, req.d)
    /\ UNCHANGED frame

AddSeconds ==
    /\ req.op = "add_seconds"
    /\ res = Pending
    /\ res' = Value(add_seconds(req.a, req.b), FALSE)
    /\ UNCHANGED frame

NumberToTimestamp ==
    /\ req.op = "number_to_timestamp"
    /\ res = Pending
    /\ res' = Value(eval_number_to_timestamp(req.a), FALSE)
    /\ UNCHANGED frame

NumberToTimestampDomain ==
    /\ req.op = "number_to_timestamp_domain"
    /\ res = Pending
    /\ res' = number_to_timestamp_domain(req.a, req.b)
    /\ UNCHANGED frame

NumberToDate ==
    /\ req.op = "number_to_date"
    /\ res = Pending
    /\ res' = Value(eval_number_to_date(req.a), FALSE)
    /\ UNCHANGED frame

NumberToDateDomain ==
    /\ req.op = "number_to_date_domain"
    /\ res = Pending
    /\ res' = number_to_date_domain(req.a, req.b)
    /\ UNCHANGED frame

DateToTimestamp ==
    /\ req.op = "date_to_timestamp"
    /\ res = Pending
    /\ res' = Value(calc_date_to_timestamp(req.a, req.tz), FALSE)
    /\ UNCHANGED frame

ConvertTimezone ==
    /\ req.op = "convert_timezone"
    /\ res = Pending
    /\ res' = convert_timezone(req.target, req.a, req.tz)
    /\ UNCHANGED frame

\* the value convert_timezone returned is converted back: the session zone is
\* now the target, the target the former session zone.  req.c keeps the value
\* of the first conversion, req.d = 1 marks the way back.
ConvertTimezoneBack ==
    /\ req.op = "convert_timezone"
    /\ req.d = 0
    /\ res.status = "ok"
    /\ req' = [req EXCEPT !.c = res.val, !.d = 1]
    /\ res' = convert_timezone(req.tz, res.val, req.target)
    /\ UNCHANGED <<build, fn, rows, ctx, idx, output, errors, result>>

\* EvalDaysImpl::eval_date_diff taking the distance between the two days
EvalDaysImpl_eval_date_diff_distance(date_start, date_end) ==
    IF date_end >= date_start THEN date_end - date_start
    ELSE date_start - date_end

\* EvalDaysImpl::eval_date_diff: the whole days from date_start to date_end
EvalDaysImpl_eval_date_diff(date_start, date_end) == date_end - date_start

\* the row closure of diff_days(Date, Date): |date_end, date_start|
diff_days(date_end, date_start) ==
    Value(EvalDaysImpl_eval_date_diff(date_start, date_end), FALSE)

DiffDays ==
    /\ req.op = "diff_days"
    /\ res = Pending
    /\ res' = diff_days(req.a, req.b)
    /\ UNCHANGED frame

\* the same call with its arguments exchanged: req.c keeps the first result,
\* req.d = 1 marks the second call
DiffDaysExchanged ==
    /\ req.op = "diff_days"
    /\ req.d = 0
    /\ res.status = "ok"
    /\ req' = [req EXCEPT !.c = res.val, !.d = 1]
    /\ res' = diff_days(req.b, req.a)
    /\ UNCHANGED <<build, fn, rows, ctx, idx, output, errors, result>>

\* date_to_string(val, tz): the text "%Y-%m-%d" of the day val
date_to_string(val, tz) ==
    LET months == val \div DAYS_PER_MONTH IN
    Txt("date", EPOCH_YEAR + months \div MONTHS_PER_YEAR,
        (months % MONTHS_PER_YEAR) + 1, (val % DAYS_PER_MONTH) + 1, 0, 0, 0, 0)

\* the row closure of to_string(Date)
to_string(val, tz) == StringValue(date_to_string(val, tz))

DateToString ==
    /\ req.op = "to_string"
    /\ res = Pending
    /\ res' = to_string(req.a, req.tz)
    /\ UNCHANGED frame

\* to_date(String) of the string to_string returned, under the same session:
\* req.b = 1 is the strict parser, req.d = 1 marks the way back
ToDateOfString ==
    /\ req.op = "to_string"
    /\ req.d = 0
    /\ res.status = "ok"
    /\ req' = [req EXCEPT !.d = 1]
    /\ LET c == [NoCtx EXCEPT !.tz = req.tz,
                               !.enable_strict_datetime_parser = (req.b = 1)]
           e == eval_string_to_date(res.str, c)
       IN  res' = IF e.err = <<>> /\ Len(e.push) = 1
                  THEN Value(e.push[1].v, FALSE)
                  ELSE RowError("cannot parse to type DATE", 0)
    /\ UNCHANGED <<build, fn, rows, ctx, idx, output, errors, result>>

Next ==
    \/ Plus
    \/ Minus
    \/ PlusDomain
    \/ MinusDomain
    \/ AddSeconds
    \/ NumberToTimestamp
    \/ NumberToTimestampDomain
    \/ NumberToDate
    \/ NumberToDateDomain
    \/ DateToTimestamp
    \/ ConvertTimezone
    \/ ConvertTimezoneBack
    \/ DiffDays
    \/ DiffDaysExchanged
    \/ DateToString
    \/ ToDateOfString

Spec == Init /\ [][Next]_vars

-----------------------------------------------------------------------------
(* Batch evaluation: the vectorized loop calls the row closure of the      *)
(* registered function once a row, then the registry's wrapper hands the   *)
(* column back.                                                            *)

MaxRows == 2

Functions ==
    {Fn(name, args) :
        name \in {"to_timestamp", "try_to_timestamp", "to_date", "try_to_date"},
        args \in {1, 2}} \cup {Fn("to_string", 2)}

Row(text, format) == [text |-> text, format |-> format]

\* the rows of a String column
StringRows ==
    {Row(t, FormatEmpty) :
        t \in {TextPlain, TextGap, TextOverlap, TextOffset, TextEdge, TextLate,
               TextWords, TextGarbage}}

\* the rows of a (String, String) pair of columns
FormatRows ==
    {Row(TextPlain, FormatDateTime), Row(TextGap, FormatDateTime),
     Row(TextPlain, FormatEmpty), Row(TextGarbage, FormatDateTime),
     Row(TextOffset, FormatDateTimeTz), Row(TextDate, FormatDate),
     Row(TextPlain, FormatDate), Row(TextTime, FormatTime),
     Row(TextPercentZ, FormatEscaped), Row(TextGarbage, FormatEmpty)}

\* the rows of to_string's (Timestamp, String) pair of columns
TimestampFormatRows ==
    {Row(t, f) : t \in {TIMESTAMP_MIN, DST_START, TIMESTAMP_MAX},
                 f \in {FormatEmpty, FormatDateTime}}

RowsOf(f) ==
    IF f = Fn("to_string", 2) THEN TimestampFormatRows
    ELSE IF f.args = 1 THEN StringRows ELSE FormatRows

\* a row of convert_timezone's (String, Timestamp) pair of columns
TzRow(target_tz, src_timestamp) ==
    [target_tz |-> target_tz, src_timestamp |-> src_timestamp]

\* the settings the function reads
Contexts(f) ==
    {[tz |-> tz, enable_dst_hour_fix |-> fix,
      enable_strict_datetime_parser |-> strict,
      parse_datetime_ignore_remainder |-> ignore,
      validity |-> NoValidity] :
        tz \in Zones, fix \in BOOLEAN,
        strict \in (IF f.args = 1 THEN BOOLEAN ELSE {FALSE}),
        ignore \in (IF f.args = 2 THEN BOOLEAN ELSE {FALSE})}

\* ctx.set_error(row, msg) for each message of a closure's effect
set_error(errs, row, msgs) ==
    errs \cup {[row |-> row, msg |-> msgs[k]] : k \in DOMAIN msgs}

ErrorRows(errs) == {e.row : e \in errs}

\* the registration hands the builder's column and the error sink back
passthrough(out, errs) == [done |-> TRUE, column |-> out, errors |-> errs]

\* error_to_null(f): a row with an error recorded is null, no error is left
error_to_null(out, errs) ==
    [done |-> TRUE,
     column |-> [i \in DOMAIN out |->
                    IF (i - 1) \in ErrorRows(errs) THEN NullSlot ELSE out[i]],
     errors |-> {}]

\* the wrapper the function is registered with
Registered(f, out, errs) ==
    IF f.args = 1 /\ f.name \in {"try_to_timestamp", "try_to_date"}
    THEN error_to_null(out, errs)
    ELSE passthrough(out, errs)

\* register_passthrough_nullable_*: the column comes back under the input
\* validity bitmap; the builder's value stays in the slot of a null row
nullable(r, validity) ==
    IF ~validity.present THEN r
    ELSE [r EXCEPT !.column =
            [i \in DOMAIN r.column |->
                IF i \in DOMAIN validity.bits /\ ~validity.bits[i]
                THEN [r.column[i] EXCEPT !.null = TRUE]
                ELSE r.column[i]]]

\* what the caller gets for the builder out and the sink errs
Wrapped(f, c, out, errs) == nullable(Registered(f, out, errs), c.validity)

\* the row closure of convert_timezone pushing 0 for a failed row and
\* reporting nothing
convert_timezone_row_silent(target_tz, src_timestamp, c, len) ==
    LET r == convert_timezone(target_tz, src_timestamp, c.tz) IN
    Push(r.val)

\* the row closure of convert_timezone, called with output.len() = len
convert_timezone_row(target_tz, src_timestamp, c, len) ==
    IF c.validity.present /\ ~get_bit(c.validity, len) THEN Push(0)
    ELSE LET r == convert_timezone(target_tz, src_timestamp, c.tz) IN
         IF r.status = "error" THEN Fail(Msg("", r.err)) ELSE Push(r.val)

\* the row closure the function is registered with, called with
\* output.len() = len
RowClosure(f, row, c, len) ==
    CASE f = Fn("convert_timezone", 2) ->
            convert_timezone_row(row.target_tz, row.src_timestamp, c, len)
      [] f.args = 1 /\ f.name \in {"to_timestamp", "try_to_timestamp"} ->
            eval_string_to_timestamp(row.text, c)
      [] f.args = 1 /\ f.name \in {"to_date", "try_to_date"} ->
            eval_string_to_date(row.text, c)
      [] f = Fn("to_timestamp", 2) -> to_timestamp_format(row.text, row.format, c)
      [] f = Fn("try_to_timestamp", 2) ->
            try_to_timestamp_format(row.text, row.format, c)
      [] f = Fn("to_date", 2) -> to_date_format(row.text, row.format, c)
      [] f = Fn("try_to_date", 2) -> try_to_date_format(row.text, row.format, c)
      [] f = Fn("to_string", 2) -> to_string_format(row.text, row.format, c)

InitBatch ==
    /\ build = "release"
    /\ req = Req("-", "-", 0, 0, 0, 0, "UTC", "UTC")
    /\ res = Pending
    /\ fn \in Functions
    /\ ctx \in Contexts(fn)
    /\ \E n \in 0 .. MaxRows : rows \in [1 .. n -> RowsOf(fn)]
    /\ idx = 0
    /\ output = <<>>
    /\ errors = {}
    /\ result = NoResult

\* vectorize_with_builder_1_arg / _2_arg: one turn of the loop
EvalRow ==
    /\ fn # NoFn
    /\ idx < Len(rows)
    /\ LET e == RowClosure(fn, rows[idx + 1], ctx, Len(output)) IN
        /\ errors' = set_error(errors, Len(output), e.err)
        /\ output' = output \o e.push
    /\ idx' = idx + 1
    /\ UNCHANGED <<build, req, res, fn, rows, ctx, result>>

\* the loop is over: the registered wrapper returns the column
Finish ==
    /\ fn # NoFn
    /\ idx = Len(rows)
    /\ ~result.done
    /\ result' = Wrapped(fn, ctx, output, errors)
    /\ UNCHANGED <<build, req, res, fn, rows, ctx, idx, output, errors>>

NextBatch == EvalRow \/ Finish

SpecBatch == InitBatch /\ [][NextBatch]_vars

\* the whole evaluation of f over the column rws, from builder out and sink errs
RECURSIVE Evaluate(_, _, _, _, _)
Evaluate(f, rws, c, out, errs) ==
    IF rws = <<>> THEN Wrapped(f, c, out, errs)
    ELSE LET e == RowClosure(f, Head(rws), c, Len(out)) IN
         Evaluate(f, Tail(rws), c, out \o e.push, set_error(errs, Len(out), e.err))

-----------------------------------------------------------------------------
(* Batch evaluation of nullable columns: the EvalContext carries the input *)
(* validity bitmap; a null row still has a value in the column under it.   *)

NullableFunctions ==
    {Fn("to_timestamp", 1), Fn("to_date", 1), Fn("try_to_timestamp", 1),
     Fn("convert_timezone", 2)}

\* the rows, the values under null rows included
NullableRows(f) ==
    IF f = Fn("convert_timezone", 2)
    THEN {TzRow(target, t) :
            target \in {"UTC", "Asia/Shanghai", BadZone},
            t \in {TIMESTAMP_MIN, 0, TIMESTAMP_MAX}}
    ELSE {Row(t, FormatEmpty) : t \in {TextPlain, TextGap, TextGarbage}}

InitNullable ==
    /\ build = "release"
    /\ req = Req("-", "-", 0, 0, 0, 0, "UTC", "UTC")
    /\ res = Pending
    /\ fn \in NullableFunctions
    /\ \E n \in 0 .. MaxRows :
        /\ rows \in [1 .. n -> NullableRows(fn)]
        /\ \E c \in Contexts(fn) :
            \/ ctx = c
            \/ \E bits \in [1 .. n -> BOOLEAN] :
                    ctx = [c EXCEPT !.validity = Validity(bits)]
    /\ idx = 0
    /\ output = <<>>
    /\ errors = {}
    /\ result = NoResult

SpecNullable == InitNullable /\ [][NextBatch]_vars

-----------------------------------------------------------------------------
(* Calendar arithmetic.  Month lengths and leap years do not survive a     *)
(* change of scale, so these functions work on the real proleptic          *)
(* Gregorian calendar: a Date is its day number, 0 = 1970-01-01, and the   *)
(* calls are drawn from the days of the years FirstYear .. LastYear.       *)

FirstYear == 2023
LastYear == 2024
MaxMonths == 14

is_leap_year(y) == y % 4 = 0 /\ (y % 100 # 0 \/ y % 400 = 0)

\* the last day of month m of year y
days_in_month(y, m) ==
    CASE m = 2 -> IF is_leap_year(y) THEN 29 ELSE 28
      [] m \in {4, 6, 9, 11} -> 30
      [] OTHER -> 31

Ymd(y, m, d) == [year |-> y, month |-> m, day |-> d]

\* NaiveDate::from_ymd(y, m, d) as a Date: days since 1970-01-01
ymd_to_date(y, m, d) ==
    LET yy == IF m <= 2 THEN y - 1 ELSE y
        era == yy \div 400
        yoe == yy - era * 400
        mp == IF m > 2 THEN m - 3 ELSE m + 9
        doy == (153 * mp + 2) \div 5 + d - 1
        doe == yoe * 365 + yoe \div 4 - yoe \div 100 + doy
    IN  era * 146097 + doe - 719468

\* date.to_date(): the year, month and day of a Date
date_to_ymd(date) ==
    LET z == date + 719468
        era == z \div 146097
        doe == z - era * 146097
        yoe == (doe - doe \div 1460 + doe \div 36524 - doe \div 146096) \div 365
        doy == doe - (365 * yoe + yoe \div 4 - yoe \div 100)
        mp == (5 * doy + 2) \div 153
        d == doy - (153 * mp + 2) \div 5 + 1
        m == IF mp < 10 THEN mp + 3 ELSE mp - 9
    IN  Ymd(yoe + era * 400 + (IF m <= 2 THEN 1 ELSE 0), m, d)

\* EvalMonthsImpl::eval_date adding every month without the end-of-month clamp
EvalMonthsImpl_eval_date_unclamped(date, delta) ==
    LET c == date_to_ymd(date)
        total == c.year * 12 + (c.month - 1) + delta
    IN  Ok(ymd_to_date(total \div 12, (total % 12) + 1, c.day))

\* EvalMonthsImpl::eval_date: the target year and month by division and
\* remainder of the month count, the day clamped to the target month's last
EvalMonthsImpl_eval_date(date, delta) ==
    LET c == date_to_ymd(date)
        total == c.year * 12 + (c.month - 1) + delta
        year == total \div 12
        month == (total % 12) + 1
        last == days_in_month(year, month)
    IN  Ok(ymd_to_date(year, month, IF c.day > last THEN last ELSE c.day))

\* the row closure of add_months(Date, Int64)
add_months(date, delta) ==
    LET r == EvalMonthsImpl_eval_date(date, unsigned_ident(delta)) IN
    IF r.ok THEN Value(r.ts, FALSE) ELSE RowError(r.err, 0)

CalendarDates == ymd_to_date(FirstYear, 1, 1) .. ymd_to_date(LastYear, 12, 31)

CalendarRequest(r) ==
    \E a \in CalendarDates, b \in -MaxMonths .. MaxMonths :
        r = Req("add_months", "Date", a, b, 0, 0, "UTC", "UTC")

InitCalendar ==
    /\ build = "release"
    /\ CalendarRequest(req)
    /\ res = Pending
    /\ BatchIdle

AddMonths ==
    /\ req.op = "add_months"
    /\ res = Pending
    /\ res' = add_months(req.a, req.b)
    /\ UNCHANGED frame

NextCalendar == AddMonths

SpecCalendar == InitCalendar /\ [][NextCalendar]_vars

-----------------------------------------------------------------------------
(* Properties of the calls *)

Returned == res.status # "pending"

InRange(ty, v) == v \in RangeOf(ty)

Clamp(ty, v) == IF ty = "Date" THEN clamp_date(v) ELSE clamp_timestamp(v)

\* the row function of plus / minus on type ty, as the batch would apply it
EvalArith(op, ty, bld, a, b) ==
    CASE op = "plus" /\ ty = "Date" -> plus_date(bld, a, b)
      [] op = "plus" /\ ty = "Timestamp" -> plus_timestamp(bld, a, b)
      [] op = "minus" /\ ty = "Date" -> minus_date(bld, a, b)
      [] op = "minus" /\ ty = "Timestamp" -> minus_timestamp(bld, a, b)

\* every pair of inputs of the domains lhs = [a, b], rhs = [c, d] that the row
\* function op evaluates to a value evaluates to a value inside [res.min, res.max]
SoundFor(op) ==
    \A x \in req.a .. req.b, y \in req.c .. req.d :
        LET e == EvalArith(op, req.ty, build, x, y) IN
        e.status = "ok" => res.min <= e.val /\ e.val <= res.max

\* C1: plus(a, b) and minus(a, b) of an in-range Date or Timestamp a and any
\* 64-bit b return the exact a + b or a - b pinned to the valid range, and the
\* intermediate sum or difference neither wraps nor panics.
C1_PlusMinusSaturate ==
    (req.op \in {"plus", "minus"} /\ Returned) =>
        /\ res.status = "ok"
        /\ ~res.wrapped
        /\ InRange(req.ty, res.val)
        /\ res.val = Clamp(req.ty, IF req.op = "plus" THEN req.a + req.b
                                   ELSE req.a - req.b)

\* C2: add_seconds(t, delta) of an in-range Timestamp t and any 64-bit delta
\* is inside [TIMESTAMP_MIN, TIMESTAMP_MAX].
C2_AddSecondsInRange ==
    (req.op = "add_seconds" /\ Returned) =>
        /\ res.status = "ok"
        /\ res.val \in Timestamps

\* add_seconds has saturated at both ends of the range
C2_Witness ==
    /\ req.op = "add_seconds"
    /\ Returned
    /\ \/ req.b = I64_MAX /\ res.val = TIMESTAMP_MAX
       \/ req.b = I64_MIN /\ res.val = TIMESTAMP_MIN

\* C3: the domain declared for minus(Date, Int64) and minus(Timestamp, Int64) is
\* [lhs.min - rhs.max, lhs.max - rhs.min] saturated, it has min <= max, and every
\* a in lhs and b in rhs evaluate to a - b inside it (stated for the calls in
\* which nothing overflows 64 bits).
C3_MinusDomainSwapsSubtrahend ==
    (req.op = "minus_domain" /\ Returned /\ res.status = "ok" /\ ~res.wrapped) =>
        /\ res.kind = "Bounded"
        /\ res.min = Clamp(req.ty, req.a - req.d)
        /\ res.max = Clamp(req.ty, req.b - req.c)
        /\ res.min <= res.max
        /\ SoundFor("minus")

\* C4: whenever the domain rule of to_timestamp(Int64) declares Bounded[min, max]
\* for the input domain [lo, hi], every n in [lo, hi] evaluates inside [min, max].
C4_NumberToTimestampDomainSound ==
    (req.op = "number_to_timestamp_domain" /\ Returned /\ res.kind = "Bounded") =>
        \A n \in req.a .. req.b :
            /\ res.min <= eval_number_to_timestamp(n)
            /\ eval_number_to_timestamp(n) <= res.max

\* C5: whenever the domain rule of plus(Date, Int64) or plus(Timestamp, Int64)
\* declares Bounded[min, max], every a in lhs and b in rhs evaluate inside it.
C5_PlusDomainSound ==
    (req.op = "plus_domain" /\ Returned /\ res.kind = "Bounded") => SoundFor("plus")

\* C6: when a bound sub-expression of the plus / minus domain rule overflows,
\* the rule returns MayFail, never a Bounded domain built from a wrapped value.
C6_OverflowGivesMayFail ==
    (req.op \in {"plus_domain", "minus_domain"} /\ Returned) =>
        LET lo == IF req.op = "plus_domain" THEN req.a + req.c ELSE req.a - req.c
            hi == IF req.op = "plus_domain" THEN req.b + req.d ELSE req.b - req.d
        IN  (Overflows(lo) \/ Overflows(hi)) =>
                res.status = "ok" /\ res.kind = "MayThrow"

\* C7: the domain rule of to_date(Int64) and of to_timestamp(Int64) returns
\* MayFail if a value of the input domain is outside the target's valid range,
\* and otherwise Bounded with exactly the casts of the input bounds.
C7_CastDomainMayFailOrExact ==
    (req.op \in {"number_to_date_domain", "number_to_timestamp_domain"} /\ Returned) =>
        LET ty == IF req.op = "number_to_date_domain" THEN "Date" ELSE "Timestamp"
            cast(n) == IF ty = "Date" THEN eval_number_to_date(n)
                       ELSE eval_number_to_timestamp(n)
        IN  IF \E n \in req.a .. req.b : ~InRange(ty, n)
            THEN res.kind = "MayThrow"
            ELSE /\ res.kind = "Bounded"
                 /\ res.min = cast(req.a)
                 /\ res.max = cast(req.b)

\* C8: every Timestamp a conversion produces is inside [TIMESTAMP_MIN,
\* TIMESTAMP_MAX]: to_timestamp(n), to_timestamp(d) under every session
\* timezone, and every value convert_timezone returns without error.
C8_ConversionsInRange ==
    (/\ req.op \in {"number_to_timestamp", "date_to_timestamp", "convert_timezone"}
     /\ Returned
     /\ res.status = "ok") => res.val \in Timestamps

-----------------------------------------------------------------------------
(* Properties of the batch evaluation *)

\* the to_ function a try_ function shadows
ToVariant(f) ==
    Fn(IF f.name = "try_to_timestamp" THEN "to_timestamp" ELSE "to_date", f.args)

\* C9: to_timestamp(String) and to_date(String) over N rows give N slots; a row
\* that fails alone holds the placeholder 0 and has an error under its index,
\* every other row holds the value it gives alone and has no error.
C9_BatchIsolatesFailingRows ==
    (result.done /\ fn \in {Fn("to_timestamp", 1), Fn("to_date", 1)}) =>
        /\ Len(result.column) = Len(rows)
        /\ \A i \in DOMAIN rows :
            LET alone == Evaluate(fn, <<rows[i]>>, ctx, <<>>, {}) IN
            IF alone.errors # {}
            THEN /\ result.column[i] = Slot(0)
                 /\ (i - 1) \in ErrorRows(result.errors)
            ELSE /\ alone.column = <<result.column[i]>>
                 /\ (i - 1) \notin ErrorRows(result.errors)

\* C10: a try_ function hands back no error and one slot for every input row;
\* the row's slot is null exactly when the to_ function over the same column
\* reports an error for that row or gives null, and otherwise holds the to_
\* function's value.
C10_TryTurnsErrorsIntoNulls ==
    (result.done /\ fn.name \in {"try_to_timestamp", "try_to_date"}) =>
        LET to == Evaluate(ToVariant(fn), rows, ctx, <<>>, {}) IN
        /\ result.errors = {}
        /\ Len(result.column) = Len(rows)
        /\ Len(to.column) = Len(rows)
        /\ \A i \in DOMAIN rows :
            /\ result.column[i].null <=>
                    ((i - 1) \in ErrorRows(to.errors) \/ to.column[i].null)
            /\ ~result.column[i].null => result.column[i] = to.column[i]

-----------------------------------------------------------------------------
(* Properties of the evaluation of nullable columns *)

\* the rows the input validity bitmap marks null
NullRows == {i \in DOMAIN rows : ~ctx.validity.bits[i]}

\* C11: a function registered to pass nulls through (to_timestamp(String),
\* to_date(String), convert_timezone), evaluated under an input validity
\* bitmap, leaves the value 0 and no error for every row marked null, and the
\* validity of its output is the input bitmap.
C11_NullRowsGetZero ==
    (/\ result.done
     /\ ctx.validity.present
     /\ fn \in {Fn("to_timestamp", 1), Fn("to_date", 1), Fn("convert_timezone", 2)})
    =>
        /\ Len(result.column) = Len(rows)
        /\ \A i \in DOMAIN rows : result.column[i].null <=> i \in NullRows
        /\ \A i \in NullRows :
            /\ result.column[i].v = 0
            /\ (i - 1) \notin ErrorRows(result.errors)

\* the part of C11 that convert_timezone's own validity check gives
C11_ConvertTimezoneNullRows ==
    (result.done /\ ctx.validity.present /\ fn = Fn("convert_timezone", 2)) =>
        /\ Len(result.column) = Len(rows)
        /\ \A i \in NullRows :
            /\ result.column[i] = NullSlot
            /\ (i - 1) \notin ErrorRows(result.errors)

-----------------------------------------------------------------------------
(* Properties of the resolution of local times *)

\* the text is read as a wall clock reading with no UTC offset
ReadsNaive(text, c) ==
    IF c.enable_strict_datetime_parser THEN text.shape \in {"datetime", "date"}
    ELSE text.shape \in {"datetime", "date", "words"}

\* the loop evaluates a row of to_timestamp(String) whose text reads as a wall
\* clock reading that tz resolves as kind
ResolvesRow(kind) ==
    /\ fn = Fn("to_timestamp", 1)
    /\ idx < Len(rows)
    /\ idx' = idx + 1
    /\ ReadsNaive(rows[idx + 1].text, ctx)
    /\ from_local_datetime(ctx.tz, TextNaive(rows[idx + 1].text)).kind = kind

\* the row appended the value v and reported nothing
RowGives(v) == output' = Append(output, Slot(v)) /\ errors' = errors

\* the row appended the placeholder 0 and reported an error under its index
RowFails ==
    /\ output' = Append(output, Slot(0))
    /\ errors' # errors
    /\ \A e \in errors' \ errors : e.row = Len(output)

\* the lenient parser reads a UTC offset in the row's text, and the reading
\* has no instant at that offset
OffsetRowUnresolved ==
    /\ fn = Fn("to_timestamp", 1)
    /\ idx < Len(rows)
    /\ idx' = idx + 1
    /\ ~ctx.enable_strict_datetime_parser
    /\ rows[idx + 1].text.shape = "datetime_tz"
    /\ and_local_timezone(TextNaive(rows[idx + 1].text),
                          rows[idx + 1].text.off).kind = "None"

\* with enable_dst_hour_fix the reading one hour later is resolved and the row
\* gives its instant (the earlier of two), or fails when there is none;
\* without it the row fails, leaving the placeholder 0
ShiftsOneHourOrFails ==
    LET res2 == checked_add_signed(TextNaive(rows[idx + 1].text), MICROS_PER_HOUR)
        again == from_local_datetime(ctx.tz, res2.v)
    IN  IF ctx.enable_dst_hour_fix /\ res2.some /\ again.kind # "None"
        THEN RowGives(again.t1)
        ELSE RowFails

\* C12: a row of to_timestamp(String) whose text reads as a local time that
\* does not exist where it is resolved (the session zone skips it, or it has
\* no instant at the offset the text carries): with enable_dst_hour_fix the
\* reading one hour later is resolved, the row gives its instant (the earlier
\* of two) or reports an error when there is none; without it the row reports
\* an error and leaves the placeholder 0.
C12_GapShiftsOneHourOrFails ==
    [][(ResolvesRow("None") \/ OffsetRowUnresolved) => ShiftsOneHourOrFails]_vars

\* the part of C12 about the readings the session zone skips
C12_SkippedReadingShiftsOrFails ==
    [][ResolvesRow("None") => ShiftsOneHourOrFails]_vars

\* a row in the skipped hour has been given the instant of the reading one
\* hour later
C12_Witness ==
    /\ fn = Fn("to_timestamp", 1)
    /\ ctx.tz = "Europe/London"
    /\ ctx.enable_dst_hour_fix
    /\ rows = <<Row(TextGap, FormatEmpty)>>
    /\ idx = 1
    /\ output = <<Slot(DST_START)>>
    /\ errors = {}

\* C13: a row whose text reads as a wall clock reading that the session zone
\* repeats never fails: it gives the earlier of the two instants with
\* enable_dst_hour_fix, the later one without.
C13_OverlapEarlierOrLater ==
    [][ResolvesRow("Ambiguous") =>
        LET m == from_local_datetime(ctx.tz, TextNaive(rows[idx + 1].text)) IN
        /\ m.t1 < m.t2
        /\ RowGives(IF ctx.enable_dst_hour_fix THEN m.t1 ELSE m.t2)]_vars

\* a row in the repeated hour has been given the later instant, the fix unset
C13_Witness ==
    /\ fn = Fn("to_timestamp", 1)
    /\ ctx.tz = "Europe/London"
    /\ ~ctx.enable_dst_hour_fix
    /\ rows = <<Row(TextOverlap, FormatEmpty)>>
    /\ idx = 1
    /\ output = <<Slot(DST_END)>>
    /\ errors = {}

\* C14: to_timestamp(d) of a Date d under the session zone tz is the instant at
\* which tz's wall clock reads d 00:00:00, by the offset tz has on that day
\* (stated for the days whose midnight tz resolves to a single instant).
C14_DateToTimestampResolvesMidnight ==
    (req.op = "date_to_timestamp" /\ Returned) =>
        LET m == from_local_datetime(req.tz, req.a * MICROS_PER_DAY) IN
        m.kind = "Single" => (res.status = "ok" /\ res.val = m.t1)

-----------------------------------------------------------------------------
(* Properties of the calendar arithmetic *)

\* y-m-d is a date of the calendar
ValidYmd(c) ==
    /\ c.month \in 1 .. 12
    /\ c.day \in 1 .. days_in_month(c.year, c.month)

\* C15: add_months(d, n) is a date of the calendar in the month n months
\* after d's, on d's day of the month, or on the last day of that month when
\* it has no such day.
C15_AddMonthsClampsToMonthEnd ==
    (req.op = "add_months" /\ Returned) =>
        LET from == date_to_ymd(req.a)
            to == date_to_ymd(res.val)
            last == days_in_month(to.year, to.month)
        IN  /\ res.status = "ok"
            /\ ValidYmd(to)
            /\ ymd_to_date(to.year, to.month, to.day) = res.val
            /\ to.year * 12 + to.month = from.year * 12 + from.month + req.b
            /\ to.day = IF from.day <= last THEN from.day ELSE last

\* add_months(2024-01-31, 1) has returned 2024-02-29
C15_Witness ==
    /\ req.op = "add_months"
    /\ req.a = ymd_to_date(2024, 1, 31)
    /\ req.b = 1
    /\ Returned
    /\ res.val = ymd_to_date(2024, 2, 29)
    /\ date_to_ymd(res.val) = Ymd(2024, 2, 29)

\* add_months(2023-01-31, 1) has returned 2023-02-28
C15_WitnessCommonYear ==
    /\ req.op = "add_months"
    /\ req.a = ymd_to_date(2023, 1, 31)
    /\ req.b = 1
    /\ Returned
    /\ res.val = ymd_to_date(2023, 2, 28)

-----------------------------------------------------------------------------
(* Properties of convert_timezone *)

\* the UTC offset of zone tz at instant t, in micros
OffsetMicros(tz, t) == local_minus_utc(tz, t) * MICROS_PER_SEC

\* C16: convert_timezone(T, t) under the session zone S, T a zone name that
\* parses, is t plus the offset of T at t less the offset of S at t; it is t
\* when the two offsets are the same.
C16_ConvertTimezoneAddsOffsetDelta ==
    (req.op = "convert_timezone" /\ req.d = 0 /\ Returned /\ tz_parses(req.target))
    =>
        /\ res.status = "ok"
        /\ res.val = req.a + OffsetMicros(req.target, req.a)
                            - OffsetMicros(req.tz, req.a)
        /\ OffsetMicros(req.target, req.a) = OffsetMicros(req.tz, req.a)
                => res.val = req.a

\* a timestamp has been moved from UTC to a zone one hour ahead
C16_Witness ==
    /\ req.op = "convert_timezone"
    /\ req.d = 0
    /\ req.tz = "UTC"
    /\ req.target = "Asia/Shanghai"
    /\ req.a = DST_START
    /\ res.status = "ok"
    /\ res.val = DST_START + MICROS_PER_HOUR

\* C18: a timestamp converted from zone A to zone B and back from B to A is
\* the original value when A and B each have the same offset at the original
\* and at the shifted instant.
C18_ConvertTimezoneRoundTrip ==
    (req.op = "convert_timezone" /\ req.d = 1) =>
        ((/\ OffsetMicros(req.tz, req.a) = OffsetMicros(req.tz, req.c)
          /\ OffsetMicros(req.target, req.a) = OffsetMicros(req.target, req.c))
         => (res.status = "ok" /\ res.val = req.a))

\* a timestamp has gone from UTC to a zone one hour ahead and back
C18_Witness ==
    /\ req.op = "convert_timezone"
    /\ req.d = 1
    /\ req.tz = "UTC"
    /\ req.target = "Asia/Shanghai"
    /\ req.a = DST_START
    /\ req.c = DST_START + MICROS_PER_HOUR
    /\ res.val = DST_START

\* the offset delta times MICROS_PER_SEC, or its sum with t, leaves i64
ConvertOverflows(target, t, tz) ==
    LET offset == OffsetMicros(target, t) - OffsetMicros(tz, t) IN
    Overflows(offset) \/ Overflows(t + offset)

\* C17: over a column, convert_timezone gives one slot a row; a non-null row
\* whose target zone name does not parse, or whose micro-arithmetic overflows
\* i64, holds the placeholder 0 and has an error under its index; every other
\* row has no error, and a non-null one holds the converted value whatever
\* the other rows are.
C17_ConvertTimezoneRowErrors ==
    (result.done /\ fn = Fn("convert_timezone", 2)) =>
        /\ Len(result.column) = Len(rows)
        /\ \A i \in DOMAIN rows :
            LET target == rows[i].target_tz
                t == rows[i].src_timestamp
                null == ctx.validity.present /\ ~ctx.validity.bits[i]
            IN  IF ~null /\ (~tz_parses(target) \/ ConvertOverflows(target, t, ctx.tz))
                THEN /\ result.column[i] = Slot(0)
                     /\ (i - 1) \in ErrorRows(result.errors)
                ELSE /\ (i - 1) \notin ErrorRows(result.errors)
                     /\ ~null => result.column[i] =
                            Slot(t + OffsetMicros(target, t) - OffsetMicros(ctx.tz, t))

\* a column whose first row names no zone and whose second row converts
C17_Witness ==
    /\ result.done
    /\ fn = Fn("convert_timezone", 2)
    /\ ~ctx.validity.present
    /\ ctx.tz = "UTC"
    /\ rows = <<TzRow(BadZone, 0), TzRow("Asia/Shanghai", 0)>>
    /\ result.column = <<Slot(0), Slot(MICROS_PER_HOUR)>>
    /\ ErrorRows(result.errors) = {0}

-----------------------------------------------------------------------------
(* Properties of diff_days and of the Date round trip *)

\* C19: diff_days(a, b) = -diff_days(b, a) for all Dates a (the end) and b
\* (the start) of the valid range.
C19_DiffDaysAntisymmetric ==
    (req.op = "diff_days" /\ req.d = 1) =>
        /\ res.status = "ok"
        /\ req.c = req.a - req.b
        /\ res.val = -req.c

\* diff_days of the two ends of the range, both ways
C19_Witness ==
    /\ req.op = "diff_days"
    /\ req.d = 1
    /\ req.a = DATE_MAX
    /\ req.b = DATE_MIN
    /\ req.c = DATE_MAX - DATE_MIN
    /\ res.val = DATE_MIN - DATE_MAX

-----------------------------------------------------------------------------
(* minus between two Dates (an Int32) and between two Timestamps (an       *)
(* Int64): the domain rule on lhs = [ln, lm] and rhs = [rn, rm], then the  *)
(* row function on a value of each.                                        *)

I32_BITS == 5
I32_MIN == -(2 ^ (I32_BITS - 1))
I32_MAX == (2 ^ (I32_BITS - 1)) - 1

\* the width of the result: i32 for Dates, i64 for Timestamps
MinOf(ty) == IF ty = "Date" THEN I32_MIN ELSE I64_MIN
MaxOf(ty) == IF ty = "Date" THEN I32_MAX ELSE I64_MAX

\* checked_sub: None when the difference does not fit the type
checked_sub(ty, x, y) ==
    IF x - y < MinOf(ty) \/ x - y > MaxOf(ty) THEN None ELSE Some(x - y)

\* FunctionDomain::Full
Full == [Pending EXCEPT !.status = "ok", !.kind = "Full"]

\* the domain rule of minus with min taken from ln - rn and max from lm - rm
minus_same_type_domain_unswapped(ty, ln, lm, rn, rm) ==
    LET min == checked_sub(ty, ln, rn)
        max == checked_sub(ty, lm, rm)
    IN  IF min.some /\ max.some THEN Bounded(min.v, max.v, FALSE) ELSE Full

\* the domain rule of minus(Date, Date) and of minus(Timestamp, Timestamp):
\* the casts of rhs.max and rhs.min to the type they already have succeed
minus_same_type_domain(ty, ln, lm, rn, rm) ==
    LET min == checked_sub(ty, ln, rm)
        max == checked_sub(ty, lm, rn)
    IN  IF min.some /\ max.some THEN Bounded(min.v, max.v, FALSE) ELSE Full

\* |a, b, _| a - b in the type of the result
minus_same_type(bld, ty, a, b) ==
    LET diff == a - b
        ovf == diff < MinOf(ty) \/ diff > MaxOf(ty)
        width == MaxOf(ty) - MinOf(ty) + 1
    IN  IF ovf /\ bld = "debug" THEN [status |-> "panic", val |-> 0]
        ELSE [status |-> "ok",
              val |-> ((diff - MinOf(ty)) % width) + MinOf(ty)]

\* the Timestamps of the model whose pairwise differences fit an i64, as all
\* pairwise differences of Timestamps do in the program
DiffTimestamps ==
    {t \in Timestamps : -(I64_MAX \div 2) <= t /\ t <= I64_MAX \div 2}

\* the values of a column of type ty
DiffValues(ty) == IF ty = "Date" THEN Dates ELSE DiffTimestamps

\* the bounds a column's domain is drawn from
DiffDomainPoints(ty) ==
    LET vals == DiffValues(ty)
        lo == CHOOSE v \in vals : \A w \in vals : v <= w
        hi == CHOOSE v \in vals : \A w \in vals : w <= v
    IN  {MinOf(ty), lo, 0, hi, MaxOf(ty)}

\* the values of the model a column with domain [lo, hi] holds
DiffColumn(ty, lo, hi) ==
    {v \in DiffDomainPoints(ty) \cup {-1, 1} :
        v \in DiffValues(ty) /\ lo <= v /\ v <= hi}

InitMinus ==
    /\ build \in Builds
    /\ \E ty \in Types :
        \E ln \in DiffDomainPoints(ty), lm \in DiffDomainPoints(ty),
           rn \in DiffDomainPoints(ty), rm \in DiffDomainPoints(ty) :
            /\ ln <= lm
            /\ rn <= rm
            /\ \E a \in DiffColumn(ty, ln, lm), b \in DiffColumn(ty, rn, rm) :
                    req = [op |-> "minus", ty |-> ty, ln |-> ln, lm |-> lm,
                           rn |-> rn, rm |-> rm, a |-> a, b |-> b]
    /\ res = Pending
    /\ BatchIdle

\* the domain rule is asked first
MinusSameTypeDomain ==
    /\ res = Pending
    /\ res' = minus_same_type_domain(req.ty, req.ln, req.lm, req.rn, req.rm)
    /\ UNCHANGED frame

\* then the row function runs on a value of each column
MinusSameType ==
    /\ res.status = "ok"
    /\ LET r == minus_same_type(build, req.ty, req.a, req.b) IN
        res' = [res EXCEPT !.status = IF r.status = "ok" THEN "evaluated"
                                      ELSE "panic",
                           !.val = r.val]
    /\ UNCHANGED frame

NextMinus == MinusSameTypeDomain \/ MinusSameType

SpecMinus == InitMinus /\ [][NextMinus]_vars

-----------------------------------------------------------------------------
(* The delta the generated add_ and subtract_ functions hand to the        *)
(* calendar helpers: $signed_wrapper!{delta}, times 3 for quarters, of     *)
(* 7 * delta for weeks.                                                    *)

Units ==
    {"years", "quarters", "months", "weeks", "days", "hours", "minutes",
     "seconds"}

\* the i64 an arithmetic expression with the exact value x leaves: a panic in
\* a debug build when x does not fit, the wrapped value in a release build
I64Result(bld, x) ==
    IF Overflows(x) /\ bld = "debug" THEN Panic
    ELSE Value(Wrap64(x), Overflows(x))

\* signed_ident!{delta}: -delta
signed_ident(bld, delta) == I64Result(bld, -delta)

\* $signed_wrapper!{delta} for $op
signed_wrapper(bld, op, delta) ==
    IF op = "subtract" THEN signed_ident(bld, delta)
    ELSE Value(unsigned_ident(delta), FALSE)

\* the delta the closure of $op_unit hands to the helper
handed_delta(bld, op, unit, delta) ==
    CASE unit = "quarters" ->
            LET w == signed_wrapper(bld, op, delta) IN
            IF w.status = "panic" THEN w
            ELSE LET r == I64Result(bld, w.val * 3) IN
                 IF r.status = "panic" THEN r
                 ELSE Value(r.val, r.wrapped \/ w.wrapped)
      [] unit = "weeks" ->
            LET r == I64Result(bld, 7 * delta) IN
            IF r.status = "panic" THEN r
            ELSE LET w == signed_wrapper(bld, op, r.val) IN
                 IF w.status = "panic" THEN w
                 ELSE Value(w.val, r.wrapped \/ w.wrapped)
      [] OTHER -> signed_wrapper(bld, op, delta)

InitDelta ==
    /\ build \in Builds
    /\ \E op \in {"add", "subtract"}, unit \in Units, delta \in I64 :
            req = [op |-> op, unit |-> unit, delta |-> delta]
    /\ res = Pending
    /\ BatchIdle

\* the closure computes the delta it hands on
HandDelta ==
    /\ res = Pending
    /\ res' = handed_delta(build, req.op, req.unit, req.delta)
    /\ UNCHANGED frame

NextDelta == HandDelta

SpecDelta == InitDelta /\ [][NextDelta]_vars

-----------------------------------------------------------------------------
(* add_ and subtract_ of hours, minutes and seconds, on a Date and on the  *)
(* Timestamp to_timestamp(Date) gives for it.                              *)

SubDayUnits == {"hours", "minutes", "seconds"}

FactorOf(unit) ==
    CASE unit = "hours" -> FACTOR_HOUR
      [] unit = "minutes" -> FACTOR_MINUTE
      [] unit = "seconds" -> FACTOR_SECOND

\* the closure of $op_unit(Timestamp, Int64)
add_sub_timestamp(bld, op, unit, ts, delta) ==
    LET w == signed_wrapper(bld, op, delta) IN
    IF w.status = "panic" THEN Panic
    ELSE Value(EvalTimesImpl_eval_timestamp(ts, w.val, FactorOf(unit)), w.wrapped)

\* the closure of $op_unit(Date, Int64): the day count in micros, then the
\* same helper
add_sub_date(bld, op, unit, date, delta) ==
    LET val == date * SECS_PER_DAY * MICROS_PER_SEC IN
    add_sub_timestamp(bld, op, unit, val, delta)

InitSubDay ==
    /\ build \in Builds
    /\ \E op \in {"add", "subtract"}, unit \in SubDayUnits, date \in Dates,
          delta \in I64, tz \in Zones :
            req = [op |-> op, unit |-> unit, date |-> date, delta |-> delta,
                   tz |-> tz, on_date |-> Pending]
    /\ res = Pending
    /\ BatchIdle

\* $op_unit(date, delta)
OnDate ==
    /\ req.on_date = Pending
    /\ res = Pending
    /\ res' = add_sub_date(build, req.op, req.unit, req.date, req.delta)
    /\ UNCHANGED frame

\* $op_unit(to_timestamp(date), delta) under the session timezone; req.on_date
\* keeps what the call on the Date gave
ViaTimestamp ==
    /\ req.on_date = Pending
    /\ res # Pending
    /\ req' = [req EXCEPT !.on_date = res]
    /\ res' = add_sub_timestamp(build, req.op, req.unit,
                                calc_date_to_timestamp(req.date, req.tz), req.delta)
    /\ UNCHANGED <<build, fn, rows, ctx, idx, output, errors, result>>

NextSubDay == OnDate \/ ViaTimestamp

SpecSubDay == InitSubDay /\ [][NextSubDay]_vars

-----------------------------------------------------------------------------
(* Backfilling a Parsed.  Each directive of a pattern sets its own field   *)
(* (%s timestamp, %Y year, %m month, %d day, %p hour_div_12, %I            *)
(* hour_mod_12, %M minute, %S second, %z offset), so parse_and_remainder   *)
(* can leave any subset of the fields set.                                 *)

\* the values a field can hold
Fields(vals) == {None} \cup {Some(v) : v \in vals}

\* the Parsed parse_and_remainder can hand back
ParsedValues ==
    [timestamp : Fields({1}), year : Fields({EPOCH_YEAR + 1}),
     month : Fields({MONTHS_PER_YEAR}), day : Fields({DAYS_PER_MONTH}),
     hour_div_12 : Fields({0, 1}), hour_mod_12 : Fields({0}),
     minute : Fields({1}), second : Fields({1}), offset : Fields({FACTOR_HOUR})]

InitParsed ==
    /\ build = "release"
    /\ \E p \in ParsedValues : req = [op |-> "backfill", parsed |-> p]
    /\ res = Pending
    /\ BatchIdle

\* lines 428-449: the Parsed after the backfilling
Backfill ==
    /\ req.op = "backfill"
    /\ res = Pending
    /\ res' = [status |-> "backfilled", parsed |-> pad_defaults(req.parsed)]
    /\ UNCHANGED frame

\* line 456: the naive reading of the backfilled Parsed
ToNaive ==
    /\ req.op = "backfill"
    /\ res.status = "backfilled"
    /\ res' = [status |-> "read", parsed |-> res.parsed,
               naive |-> to_naive_datetime_with_offset(res.parsed)]
    /\ UNCHANGED frame

NextParsed == Backfill \/ ToNaive

SpecParsed == InitParsed /\ [][NextParsed]_vars

-----------------------------------------------------------------------------
(* Properties of the error messages and of the builder's length *)

\* the prefix naming the type the function f converts to
TypePrefix(f) ==
    IF f.name \in {"to_timestamp", "try_to_timestamp"} THEN TimestampPrefix
    ELSE DatePrefix

\* C21: every error message a string-to-date or string-to-timestamp conversion
\* records, with the strict parser, the lenient parser or an explicit format,
\* is the prefix naming the type followed by the description of the failure.
C21_ErrorsNameTheType ==
    \A e \in errors : e.msg.prefix = TypePrefix(fn)

\* the one-argument conversions alone: their messages name the type
C21_OneArgumentErrorsNameTheType ==
    fn.args = 1 => \A e \in errors : e.msg.prefix = TypePrefix(fn)

\* C22: each call of the row closure appends exactly one slot on every path,
\* so after k rows the builder holds k slots and the index handed to set_error
\* is the index of the row being processed; the lenient to_timestamp path with
\* a detected timezone, no such time, the one-hour fix set and the shifted
\* naive value not representable is one of these paths.
C22_OneSlotPerRow ==
    /\ Len(output) = idx
    /\ \A e \in errors : e.row < idx

\* the closure of convert_timezone alone appends one slot a row
C22_ConvertTimezoneOneSlotPerRow ==
    fn = Fn("convert_timezone", 2) =>
        (Len(output) = idx /\ \A e \in errors : e.row < idx)

\* a row has gone through the path that pushes nothing
C22_Witness ==
    /\ fn = Fn("to_timestamp", 1)
    /\ idx = 1
    /\ rows[1].text = TextEdge
    /\ ctx.enable_dst_hour_fix
    /\ ~ctx.enable_strict_datetime_parser
    /\ output = <<>>
    /\ errors = {}

-----------------------------------------------------------------------------
(* Properties of the explicit-format conversions *)

\* what the closure did for the row it has just processed
SeenEffect ==
    Effect(<<output[idx]>>, {e.msg : e \in {x \in errors : x.row = idx - 1}})

\* the effect of to_timestamp(String, String) for the reading r
EffectOf(r) ==
    IF r.ok THEN Effect(<<Slot(r.ts)>>, {})
    ELSE Effect(<<NullSlot>>, {Msg("", r.err)})

\* the naive reading of text under the pattern format
NaiveReading(text, format, c) ==
    IF c.parse_datetime_ignore_remainder
    THEN IF Match(text, format) = "fail"
         THEN Err("input contains invalid characters")
         ELSE to_naive_datetime_with_offset(pad_defaults(parse_items(text, format)))
    ELSE NaiveDateTime_parse_from_str(text, format)

\* C23: with an explicit format, the text is read with its timezone exactly
\* when the pattern has a timezone directive, and the result then depends on
\* neither the session timezone nor enable_dst_hour_fix; otherwise the naive
\* reading is resolved in the session timezone.  A pattern where %z occurs only
\* in an escaped percent followed by z has no timezone directive.
C23_TimezoneAwareExactlyOnDirective ==
    (fn = Fn("to_timestamp", 2) /\ idx >= 1 /\ Len(output) = idx
        /\ rows[idx].format # FormatEmpty) =>
        LET text == rows[idx].text
            format == rows[idx].format
        IN  IF PatternHasTimezoneItem(format)
            THEN \A z \in Zones, f \in BOOLEAN :
                    LET c == [ctx EXCEPT !.tz = z, !.enable_dst_hour_fix = f]
                        e == to_timestamp_format(text, format, c)
                    IN  e.push = SeenEffect.push
            ELSE SeenEffect =
                    EffectOf(resolve_local(NaiveReading(text, format, ctx), ctx.tz,
                                           ctx.enable_dst_hour_fix))

\* the same for the patterns whose characters hold no escaped percent
C23_UnescapedPatterns ==
    (idx >= 1 /\ idx <= Len(rows) /\ rows[idx].format # FormatEscaped) =>
        C23_TimezoneAwareExactlyOnDirective

\* a row with the escaped pattern has been processed
C23_Witness ==
    /\ fn = Fn("to_timestamp", 2)
    /\ idx = 1
    /\ rows[1] = Row(TextPercentZ, FormatEscaped)
    /\ ctx.tz = "Asia/Shanghai"
    /\ Len(output) = 1

\* the calendar fields the backfilling is about
CalendarFields(p) ==
    <<p.year, p.month, p.day, p.hour_div_12, p.hour_mod_12, p.minute, p.second>>

\* C24: when the pattern gave no epoch timestamp, the backfilling sets every
\* calendar field the pattern left unset (year, month, day, both hour fields,
\* minute, second) and leaves every field the pattern set unchanged, whatever
\* subset of the fields the pattern set.
C24_BackfillSetsEveryField ==
    (req.op = "backfill" /\ res.status = "backfilled"
        /\ ~req.parsed.timestamp.some) =>
        \A i \in 1 .. 7 :
            /\ CalendarFields(res.parsed)[i].some
            /\ CalendarFields(req.parsed)[i].some =>
                    CalendarFields(res.parsed)[i] = CalendarFields(req.parsed)[i]

\* the same when the pattern set both hour fields or neither
C24_BackfillWithWholeHour ==
    (req.op = "backfill" /\ res.status = "backfilled"
        /\ req.parsed.hour_div_12.some = req.parsed.hour_mod_12.some) =>
        C24_BackfillSetsEveryField

\* a Parsed with the 12-hour value alone has been backfilled and read
C24_Witness ==
    /\ req.op = "backfill"
    /\ res.status = "read"
    /\ ~req.parsed.timestamp.some
    /\ req.parsed.hour_mod_12.some
    /\ ~req.parsed.hour_div_12.some
    /\ ~res.parsed.hour_div_12.some
    /\ ~res.naive.ok

-----------------------------------------------------------------------------
(* Properties of minus between two values of the same type *)

\* the exact bounds of lhs - rhs
ExactMin == req.ln - req.rm
ExactMax == req.lm - req.rn

\* C25: the declared domain of minus(Date, Date) and of
\* minus(Timestamp, Timestamp) is [lhs.min - rhs.max, lhs.max - rhs.min] when
\* both differences fit the result type and Unrestricted otherwise; for a in
\* lhs and b in rhs inside the valid range, a - b does not overflow and lies
\* inside the declared domain.
C25_MinusSameTypeDomainSound ==
    (req.op = "minus" /\ res.status # "pending") =>
        /\ IF /\ MinOf(req.ty) <= ExactMin /\ ExactMin <= MaxOf(req.ty)
              /\ MinOf(req.ty) <= ExactMax /\ ExactMax <= MaxOf(req.ty)
           THEN res.kind = "Bounded" /\ res.min = ExactMin /\ res.max = ExactMax
           ELSE res.kind = "Full"
        /\ res.status # "panic"
        /\ res.status = "evaluated" =>
            /\ res.val = req.a - req.b
            /\ res.kind = "Bounded" => (res.min <= res.val /\ res.val <= res.max)

\* a difference of Timestamps at the lower end of its declared domain
C25_Witness ==
    /\ req.op = "minus"
    /\ req.ty = "Timestamp"
    /\ res.status = "evaluated"
    /\ res.kind = "Bounded"
    /\ req.ln < req.lm
    /\ req.rn < req.rm
    /\ res.val = res.min
    /\ res.val < 0

\* a domain that does not fit the result type, with the values evaluated
C25_WitnessFull ==
    /\ req.op = "minus"
    /\ req.ty = "Date"
    /\ res.status = "evaluated"
    /\ res.kind = "Full"
    /\ res.val = DATE_MAX - DATE_MIN

-----------------------------------------------------------------------------
(* Properties of the lenient reading of a text with its own timezone *)

\* the loop evaluates a row of to_timestamp(String) in which the lenient
\* parser reads a UTC offset
OffsetRow ==
    /\ fn = Fn("to_timestamp", 1)
    /\ idx < Len(rows)
    /\ idx' = idx + 1
    /\ ~ctx.enable_strict_datetime_parser
    /\ rows[idx + 1].text.shape = "datetime_tz"

\* the row did what it does under the session timezone z
SameAsUnder(z) ==
    LET e == eval_string_to_timestamp(rows[idx + 1].text, [ctx EXCEPT !.tz = z])
    IN  /\ output' = output \o e.push
        /\ errors' = set_error(errors, Len(output), e.err)

\* C26: with the lenient parser, a text that carries its own timezone gives
\* the same outcome (the same instant, or a failed row) under every session
\* timezone, the text and enable_dst_hour_fix being the same.
C26_OwnTimezoneIgnoresSession ==
    [][OffsetRow => \A z \in Zones : SameAsUnder(z)]_vars

\* the same for the texts whose reading has an instant at their own offset
C26_ResolvedOffsetIgnoresSession ==
    [][(OffsetRow /\ ~OffsetRowUnresolved) => \A z \in Zones : SameAsUnder(z)]_vars

\* the reading one hour later was resolved in the session timezone
C26_Witness ==
    /\ fn = Fn("to_timestamp", 1)
    /\ ~ctx.enable_strict_datetime_parser
    /\ ctx.enable_dst_hour_fix
    /\ ctx.tz = "UTC"
    /\ rows = <<Row(TextLate, FormatEmpty)>>
    /\ idx = 1
    /\ output = <<Slot(TextNaive(TextLate) + MICROS_PER_HOUR)>>
    /\ errors = {}

-----------------------------------------------------------------------------
(* Properties of the empty format *)

\* the functions that take a format as their second argument
FormatFunctions ==
    {Fn(name, 2) : name \in {"to_timestamp", "try_to_timestamp", "to_date",
                             "try_to_date", "to_string"}}

\* C27: for to_timestamp, try_to_timestamp, to_date, try_to_date
\* (String, String) and to_string (Timestamp, String), a row whose format is
\* the empty string is null in the output and has no error recorded, whatever
\* its first argument is, in the to_ and in the try_ variants alike.
C27_EmptyFormatGivesNull ==
    (fn \in FormatFunctions /\ result.done) =>
        \A i \in DOMAIN rows :
            rows[i].format = FormatEmpty =>
                /\ Len(result.column) = Len(rows)
                /\ result.column[i] = NullSlot
                /\ output[i] = NullSlot
                /\ (i - 1) \notin ErrorRows(result.errors)
                /\ (i - 1) \notin ErrorRows(errors)

\* to_date with an empty format on an unreadable text, next to a failing row
C27_Witness ==
    /\ fn = Fn("to_date", 2)
    /\ result.done
    /\ rows = <<Row(TextGarbage, FormatEmpty), Row(TextGarbage, FormatDateTime)>>
    /\ result.column = <<NullSlot, NullSlot>>
    /\ ErrorRows(result.errors) = {1}

\* to_string with an empty format, next to a formatted row
C27_WitnessToString ==
    /\ fn = Fn("to_string", 2)
    /\ result.done
    /\ Len(rows) = 2
    /\ rows[1].format = FormatEmpty
    /\ rows[2] = Row(DST_START, FormatDateTime)
    /\ ctx.tz = "Europe/London"
    /\ result.column[1] = NullSlot
    /\ result.column[2] = Slot(Txt("datetime", 1970, 1, 2, 0, 0, 0, 0))
    /\ result.errors = {}

-----------------------------------------------------------------------------
(* Properties of the delta of the generated add_ and subtract_ functions *)

\* sign * scale * d as an exact integer
ExactDelta ==
    (IF req.op = "subtract" THEN -1 ELSE 1)
        * (CASE req.unit = "weeks" -> 7 [] req.unit = "quarters" -> 3 [] OTHER -> 1)
        * req.delta

\* C28: the delta handed to the calendar helper is sign * scale * d as an exact
\* integer for every 64-bit d (sign -1 for subtract_ and +1 for add_, scale 7
\* for weeks, 3 for quarters, 1 otherwise), with no 64-bit overflow in negating
\* d or in computing 7 * d or 3 * d.
C28_HandedDeltaIsExact ==
    (req.op \in {"add", "subtract"} /\ res.status # "pending") =>
        /\ res.status = "ok"
        /\ ~res.wrapped
        /\ res.val = ExactDelta

\* the same for the deltas whose scaled value and whose negation fit an i64
C28_HandedDeltaIsExactWhenItFits ==
    (req.op \in {"add", "subtract"} /\ res.status # "pending"
        /\ ~Overflows(7 * req.delta) /\ ~Overflows(-req.delta)) =>
        C28_HandedDeltaIsExact

\* subtract_ of the smallest i64 in a release build hands the same delta on
C28_Witness ==
    /\ req.op = "subtract"
    /\ req.unit = "days"
    /\ req.delta = I64_MIN
    /\ build = "release"
    /\ res.status = "ok"
    /\ res.val = I64_MIN

-----------------------------------------------------------------------------
(* Properties of to_timestamp(Int64) *)

\* C29: to_timestamp(n) of a 64-bit integer never fails and picks the unit
\* from the magnitude of n: seconds (n * MICROS_PER_SEC) inside the first
\* threshold, else milliseconds (n * MICROS_PER_MILLI) inside the second, else
\* microseconds clamped to the Timestamp range; neither product overflows 64
\* bits, and the mapping is not monotone across the two thresholds.
C29_NumberToTimestampPicksUnit ==
    (req.op = "number_to_timestamp" /\ res.status # "pending") =>
        LET n == req.a IN
        /\ res.status = "ok"
        /\ IF -SEC_LIMIT < n /\ n < SEC_LIMIT
           THEN res.val = n * MICROS_PER_SEC /\ ~Overflows(n * MICROS_PER_SEC)
           ELSE IF -MILLI_LIMIT < n /\ n < MILLI_LIMIT
           THEN res.val = n * MICROS_PER_MILLI /\ ~Overflows(n * MICROS_PER_MILLI)
           ELSE res.val = (IF n < TIMESTAMP_MIN THEN TIMESTAMP_MIN
                           ELSE IF n > TIMESTAMP_MAX THEN TIMESTAMP_MAX ELSE n)
        /\ n = SEC_LIMIT => res.val < (n - 1) * MICROS_PER_SEC
        /\ n = MILLI_LIMIT => res.val < (n - 1) * MICROS_PER_MILLI

\* the first integer read as milliseconds gives an earlier instant than the
\* last one read as seconds
C29_Witness ==
    /\ req.op = "number_to_timestamp"
    /\ req.a = SEC_LIMIT
    /\ res.status = "ok"
    /\ res.val = SEC_LIMIT * MICROS_PER_MILLI
    /\ res.val < (SEC_LIMIT - 1) * MICROS_PER_SEC

-----------------------------------------------------------------------------
(* Properties of the sub-day units on a Date *)

\* C30: adding or subtracting hours, minutes or seconds on a Date gives what
\* the same call gives on to_timestamp of that Date, for every Date, every
\* 64-bit delta and every session timezone.
C30_SubDayOnDateAgreesWithTimestamp ==
    (req.op \in {"add", "subtract"} /\ req.on_date # Pending) =>
        res = req.on_date

\* the same under the session timezones that are at UTC at the epoch
C30_AgreesWhereEpochOffsetIsZero ==
    (req.op \in {"add", "subtract"} /\ req.on_date # Pending
        /\ local_minus_utc(req.tz, 0) = 0) =>
        res = req.on_date

\* one hour added to the epoch day under Asia/Shanghai, both ways
C30_Witness ==
    /\ req.op = "add"
    /\ req.unit = "hours"
    /\ req.date = 0
    /\ req.delta = 1
    /\ req.tz = "Asia/Shanghai"
    /\ req.on_date.val = MICROS_PER_HOUR
    /\ res.val = 0

====
